---------------------------- MODULE Spec2Model ----------------------------
(***************************************************************************)
(* FeatureFlow: feature-flag platform.                                     *)
(*                                                                         *)
(* Seven specifications share this module.                                 *)
(*   EngineSpec  RuleEngine.evaluateFlag and the translation of its        *)
(*               Decision into an evaluate response, applied to inputs     *)
(*               drawn from bounded sets.                                  *)
(*   Spec        the control plane (store mutations + cache invalidation)  *)
(*               running concurrently with the evaluation service over     *)
(*               the shared store and the shared Redis cache.              *)
(*   EvalSpec    POST /evaluate against the states the store and the cache *)
(*               can be in, with store faults, cache faults and the        *)
(*               request timeout.                                          *)
(*   StoreSpec   the FlagRepository calls, statement by statement inside   *)
(*               their transactions, with a concurrent getFlagConfig.      *)
(*   GateSpec    the control plane behind its API-key middleware, requests *)
(*               with every combination of credential headers.             *)
(*   BatchSpec   POST /evaluate/batch: the checks of the handler and the   *)
(*               evaluations it starts.                                    *)
(*   SdkSpec     one CanarySDK instance (initialisation, polling, refresh, *)
(*               evaluateFlag, destroy) against GET /sdk/config.           *)
(*                                                                         *)
(* Strings that the code takes apart (attribute values, user ids) are      *)
(* sequences of one-character strings; strings that are only compared      *)
(* (variant keys, reasons, ids) are TLA+ strings.  An optional field that  *)
(* is undefined/null is a field missing from the record.                   *)
(***************************************************************************)
EXTENDS Integers, Sequences, FiniteSets, TLC

\* ------------------------------------------------------------------------
\* Bounds of the model
\* ------------------------------------------------------------------------
MaxRules == 2

RandDenom == 4

MaxMutations == 1

MaxEvaluations == 2

\* repository calls (create, update, toggle, delete) in a behaviour of StoreSpec
MaxStoreCalls == 2
\* fetchConfig calls of an SDK instance in one behaviour
MaxFetches == 3
\* evaluateFlag calls on an SDK instance in one behaviour
MaxCalls == 1

\* ------------------------------------------------------------------------
\* Small helpers
\* ------------------------------------------------------------------------
Has(r, f) == f \in DOMAIN r

Range(s) == {s[i] : i \in 1..Len(s)}

RECURSIVE SeqsUpTo(_, _)
SeqsUpTo(S, n) ==
  IF n = 0 THEN {<<>>}
  ELSE LET shorter == SeqsUpTo(S, n - 1)
       IN shorter \cup {Append(s, x) : s \in {t \in shorter : Len(t) = n - 1}, x \in S}

\* ------------------------------------------------------------------------
\* JavaScript string primitives used by the rule engine
\* ------------------------------------------------------------------------
UpperChars == <<"A","B","C","D","E","F","G","H","I","J","K","L","M",
                "N","O","P","Q","R","S","T","U","V","W","X","Y","Z">>
LowerChars == <<"a","b","c","d","e","f","g","h","i","j","k","l","m",
                "n","o","p","q","r","s","t","u","v","w","x","y","z">>
DigitChars == <<"0","1","2","3","4","5","6","7","8","9">>

LowerChar(c) ==
  IF \E i \in 1..26 : UpperChars[i] = c
  THEN LowerChars[CHOOSE i \in 1..26 : UpperChars[i] = c]
  ELSE c

toLowerCase(s) == [i \in 1..Len(s) |-> LowerChar(s[i])]

IsDigit(c) == \E i \in 1..10 : DigitChars[i] = c
DigitVal(c) == (CHOOSE i \in 1..10 : DigitChars[i] = c) - 1

IsSpace(c) == c = " "

RECURSIVE trimStart(_)
trimStart(s) == IF s # <<>> /\ IsSpace(Head(s)) THEN trimStart(Tail(s)) ELSE s

RECURSIVE trimEnd(_)
trimEnd(s) ==
  IF s # <<>> /\ IsSpace(s[Len(s)]) THEN trimEnd(SubSeq(s, 1, Len(s) - 1)) ELSE s

trim(s) == trimEnd(trimStart(s))

\* s.split(','): the pieces between commas, empty pieces included
RECURSIVE splitFrom(_, _, _)
splitFrom(s, i, cur) ==
  IF i > Len(s) THEN <<cur>>
  ELSE IF s[i] = "," THEN <<cur>> \o splitFrom(s, i + 1, <<>>)
  ELSE splitFrom(s, i + 1, Append(cur, s[i]))

split(s) == splitFrom(s, 1, <<>>)

splitTrim(s) == LET parts == split(s) IN [i \in 1..Len(parts) |-> trim(parts[i])]

arrayIncludes(arr, x) == \E i \in 1..Len(arr) : arr[i] = x

startsWith(s, p) == Len(p) <= Len(s) /\ SubSeq(s, 1, Len(p)) = p

endsWith(s, p) == Len(p) <= Len(s) /\ SubSeq(s, Len(s) - Len(p) + 1, Len(s)) = p

stringIncludes(s, p) ==
  \E i \in 0..(Len(s) - Len(p)) : SubSeq(s, i + 1, i + Len(p)) = p

RECURSIVE IntToStr(_)
IntToStr(n) ==
  IF n < 0 THEN <<"-">> \o IntToStr(-n)
  ELSE IF n < 10 THEN <<DigitChars[n + 1]>>
  ELSE Append(IntToStr(n \div 10), DigitChars[(n % 10) + 1])

\* Function.prototype.toString of a built-in function
nativeCode(name) ==
  <<"f","u","n","c","t","i","o","n"," ">> \o name
    \o <<"(",")"," ","{"," ","[","n","a","t","i","v","e"," ","c","o","d","e","]"," ","}">>

\* String(userValue) for the value kinds of the model
String(v) ==
  CASE v.t = "str"  -> v.s
    [] v.t = "num"  -> IntToStr(v.n)
    [] v.t = "bool" -> IF v.b THEN <<"t","r","u","e">> ELSE <<"f","a","l","s","e">>
    [] v.t = "fn"   -> nativeCode(v.name)

\* parseFloat on sign, integer digits and fraction digits: the longest
\* numeric prefix after leading blanks; no digit at all is NaN.
\* The result is [nan, num, den] with value num / den.
RECURSIVE takeDigits(_)
takeDigits(s) ==
  IF s # <<>> /\ IsDigit(Head(s)) THEN <<Head(s)>> \o takeDigits(Tail(s)) ELSE <<>>

RECURSIVE digitsValue(_)
digitsValue(d) ==
  IF d = <<>> THEN 0 ELSE digitsValue(SubSeq(d, 1, Len(d) - 1)) * 10 + DigitVal(d[Len(d)])

RECURSIVE pow10(_)
pow10(n) == IF n = 0 THEN 1 ELSE 10 * pow10(n - 1)

\* the digits after the decimal point of the rest of the text, if any
fractionDigits(rest) ==
  IF rest # <<>> /\ Head(rest) = "." THEN takeDigits(Tail(rest)) ELSE <<>>

\* the text behind an optional sign
afterSign(s) == IF s # <<>> /\ Head(s) \in {"-", "+"} THEN Tail(s) ELSE s

\* the number read from sign, integer digits ip and fraction digits fp
floatOfDigits(neg, ip, fp) ==
  IF ip = <<>> /\ fp = <<>>
  THEN [nan |-> TRUE, num |-> 0, den |-> 1]
  ELSE [nan |-> FALSE,
        num |-> (IF neg THEN -1 ELSE 1)
                  * (digitsValue(ip) * pow10(Len(fp)) + digitsValue(fp)),
        den |-> pow10(Len(fp))]

parseUnsigned(neg, s, ip) ==
  floatOfDigits(neg, ip, fractionDigits(SubSeq(s, Len(ip) + 1, Len(s))))

parseSigned(s) ==
  parseUnsigned(s # <<>> /\ Head(s) = "-", afterSign(s), takeDigits(afterSign(s)))

parseFloat(str) == parseSigned(trimStart(str))

isNaN(x) == x.nan
floatGreater(a, b) == a.num * b.den > b.num * a.den
floatLess(a, b) == a.num * b.den < b.num * a.den

\* ------------------------------------------------------------------------
\* RuleEngine.generateUserHash: first 8 hex digits of md5(userId ":" salt),
\* tabulated for the user ids and salts of the model.
\* ------------------------------------------------------------------------
Anonymous == <<"a","n","o","n","y","m","o","u","s">>
U39 == <<"u","3","9">>
U3 == <<"u","3">>
U67 == <<"u","6","7">>
U221 == <<"u","2","2","1">>

HashUserIds == {U39, U3, U67, U221, Anonymous}
HashSalts == {"flag-1", "rule-pct"}

\* A 32-bit unsigned value is kept as its two 16-bit halves, hi * 65536 + lo
Word32(hi, lo) == [hi |-> hi, lo |-> lo]

\* hash % 100, with 65536 % 100 = 36
mod100(w) == ((w.hi % 100) * 36 + (w.lo % 100)) % 100

Md5Prefix32(userId, salt) ==
  CASE userId = U39       /\ salt = "flag-1"   -> Word32(27872, 31508)
    [] userId = U3        /\ salt = "flag-1"   -> Word32(10263, 3681)
    [] userId = U67       /\ salt = "flag-1"   -> Word32(12149, 27186)
    [] userId = U221      /\ salt = "flag-1"   -> Word32(21257, 61547)
    [] userId = Anonymous /\ salt = "flag-1"   -> Word32(27612, 23119)
    [] userId = U39       /\ salt = "rule-pct" -> Word32(31272, 1711)
    [] userId = U3        /\ salt = "rule-pct" -> Word32(57274, 17335)
    [] userId = U67       /\ salt = "rule-pct" -> Word32(40183, 57079)
    [] userId = U221      /\ salt = "rule-pct" -> Word32(1712, 1792)
    [] userId = Anonymous /\ salt = "rule-pct" -> Word32(13616, 14409)

generateUserHash(userId, flagIdentifier) == Md5Prefix32(userId, flagIdentifier)

\* userContext.user_id || 'anonymous'
userIdOrAnonymous(userContext) ==
  IF Has(userContext, "user_id") /\ userContext.user_id # <<>>
  THEN userContext.user_id ELSE Anonymous

\* ------------------------------------------------------------------------
\* RuleEngine
\* ------------------------------------------------------------------------

\* RuleEngine.evaluatePercentageRule
evaluatePercentageRule(rule, userContext) ==
  IF ~Has(rule, "percentage") \/ rule.percentage = 0
  THEN [matched |-> FALSE, reason |-> "zero_percentage"]
  ELSE LET userId     == userIdOrAnonymous(userContext)
           hash       == generateUserHash(userId, rule.id)
           percentage == mod100(hash)
           matched    == percentage < rule.percentage
           base       == [matched |-> matched,
                          reason  |-> IF matched THEN "percentage_match"
                                                 ELSE "percentage_no_match",
                          rule_id |-> rule.id]
       IN IF Has(rule, "variant_key")
          THEN base @@ [variant_key |-> rule.variant_key]
          ELSE base

\* RuleEngine.evaluateAttributeCondition
evaluateAttributeCondition(userValue, operator, expectedValue) ==
  LET userStr     == toLowerCase(String(userValue))
      expectedStr == toLowerCase(expectedValue)
  IN CASE operator = "equals"       -> userStr = expectedStr
       [] operator = "not_equals"   -> userStr # expectedStr
       [] operator = "in"           -> arrayIncludes(splitTrim(expectedStr), userStr)
       [] operator = "not_in"       -> ~arrayIncludes(splitTrim(expectedStr), userStr)
       [] operator = "contains"     -> stringIncludes(userStr, expectedStr)
       [] operator = "starts_with"  -> startsWith(userStr, expectedStr)
       [] operator = "ends_with"    -> endsWith(userStr, expectedStr)
       [] operator = "greater_than" ->
            LET userNum     == parseFloat(userStr)
                expectedNum == parseFloat(expectedStr)
            IN ~isNaN(userNum) /\ ~isNaN(expectedNum) /\ floatGreater(userNum, expectedNum)
       [] operator = "less_than"    ->
            LET userNumLt     == parseFloat(userStr)
                expectedNumLt == parseFloat(expectedStr)
            IN ~isNaN(userNumLt) /\ ~isNaN(expectedNumLt)
               /\ floatLess(userNumLt, expectedNumLt)
       [] OTHER                     -> FALSE

\* { ...userContext.attributes, ...userContext.custom_attributes }
mergedAttributes(userContext) ==
  LET attrs  == IF Has(userContext, "attributes") THEN userContext.attributes ELSE <<>>
      custom == IF Has(userContext, "custom_attributes")
                THEN userContext.custom_attributes ELSE <<>>
  IN custom @@ attrs

\* What a property read obj[name] sees on an object literal: its own
\* properties, and behind them the ones inherited from Object.prototype
\* (of which the model keeps constructor and toString).
ObjectPrototype ==
  [constructor |-> [t |-> "fn", name |-> <<"O","b","j","e","c","t">>],
   toString    |-> [t |-> "fn", name |-> <<"t","o","S","t","r","i","n","g">>]]

properties(obj) == obj @@ ObjectPrototype

\* RuleEngine.evaluateAttributeRule
evaluateAttributeRule(rule, userContext) ==
  IF \/ ~Has(rule, "attribute_name") \/ ~Has(rule, "operator")
     \/ ~Has(rule, "attribute_value") \/ rule.attribute_value = <<>>
  THEN [matched |-> FALSE, reason |-> "invalid_attribute_rule"]
  ELSE LET userAttributes == properties(mergedAttributes(userContext))
       IN IF rule.attribute_name \notin DOMAIN userAttributes
          THEN [matched |-> FALSE, reason |-> "attribute_not_found"]
          ELSE LET userValue == userAttributes[rule.attribute_name]
                   matched   == evaluateAttributeCondition(
                                  userValue, rule.operator, rule.attribute_value)
                   base      == [matched |-> matched,
                                 reason  |-> IF matched THEN "attribute_match"
                                                        ELSE "attribute_no_match",
                                 rule_id |-> rule.id]
               IN IF Has(rule, "variant_key")
                  THEN base @@ [variant_key |-> rule.variant_key]
                  ELSE base

\* RuleEngine.evaluateUserIdRule
evaluateUserIdRule(rule, userContext) ==
  IF \/ ~Has(userContext, "user_id") \/ userContext.user_id = <<>>
     \/ ~Has(rule, "attribute_value") \/ rule.attribute_value = <<>>
  THEN [matched |-> FALSE, reason |-> "invalid_user_id_rule"]
  ELSE LET targetUserIds == splitTrim(rule.attribute_value)
           matched       == arrayIncludes(targetUserIds, userContext.user_id)
           base          == [matched |-> matched,
                             reason  |-> IF matched THEN "user_id_match"
                                                    ELSE "user_id_no_match",
                             rule_id |-> rule.id]
       IN IF Has(rule, "variant_key")
          THEN base @@ [variant_key |-> rule.variant_key]
          ELSE base

\* RuleEngine.evaluateRule
evaluateRule(rule, userContext, variants) ==
  CASE rule.rule_type = "percentage" -> evaluatePercentageRule(rule, userContext)
    [] rule.rule_type = "attribute"  -> evaluateAttributeRule(rule, userContext)
    [] rule.rule_type = "user_id"    -> evaluateUserIdRule(rule, userContext)
    [] OTHER -> [matched |-> FALSE, reason |-> "unknown_rule_type"]

\* evaluatePercentageRollout with the bucket comparison turned around
evaluatePercentageRolloutInverted(percentage, userContext, flagId) ==
  IF percentage = 0 THEN [matched |-> FALSE, reason |-> "zero_rollout"]
  ELSE IF percentage = 100 THEN [matched |-> TRUE, reason |-> "full_rollout"]
  ELSE LET userId         == userIdOrAnonymous(userContext)
           hash           == generateUserHash(userId, flagId)
           userPercentage == mod100(hash)
           matched        == userPercentage >= percentage
       IN [matched |-> matched,
           reason  |-> IF matched THEN "rollout_match" ELSE "rollout_no_match"]

\* RuleEngine.evaluatePercentageRollout
evaluatePercentageRollout(percentage, userContext, flagId) ==
  IF percentage = 0 THEN [matched |-> FALSE, reason |-> "zero_rollout"]
  ELSE IF percentage = 100 THEN [matched |-> TRUE, reason |-> "full_rollout"]
  ELSE LET userId         == userIdOrAnonymous(userContext)
           hash           == generateUserHash(userId, flagId)
           userPercentage == mod100(hash)
           matched        == userPercentage < percentage
       IN [matched |-> matched,
           reason  |-> IF matched THEN "rollout_match" ELSE "rollout_no_match"]

\* variants.reduce((sum, variant) => sum + variant.weight, 0)
RECURSIVE sumWeights(_, _)
sumWeights(variants, n) ==
  IF n = 0 THEN 0 ELSE sumWeights(variants, n - 1) + variants[n].weight

\* The weighted walk of selectVariantByWeight.  Math.random() is rnd / RandDenom,
\* so random <= cumulativeWeight is rnd * totalWeight <= cumulativeWeight * RandDenom.
RECURSIVE walkVariants(_, _, _, _)
walkVariants(variants, i, rnd, totalWeight) ==
  IF i > Len(variants) THEN variants[1]
  ELSE IF rnd * totalWeight <= sumWeights(variants, i) * RandDenom THEN variants[i]
  ELSE walkVariants(variants, i + 1, rnd, totalWeight)

\* RuleEngine.selectVariantByWeight; rnd \in 0..RandDenom-1 is the random draw
selectVariantByWeight(variants, rnd) ==
  IF Len(variants) = 0
  THEN [id |-> "default", flag_id |-> "", key |-> "true", value |-> "true", weight |-> 100]
  ELSE IF Len(variants) = 1 THEN variants[1]
  ELSE LET totalWeight == sumWeights(variants, Len(variants))
       IN IF totalWeight = 0 THEN variants[1]
          ELSE walkVariants(variants, 1, rnd, totalWeight)

\* Array.prototype.sort((a, b) => a.priority - b.priority): stable
RECURSIVE insertByPriority(_, _)
insertByPriority(sorted, r) ==
  IF sorted = <<>> THEN <<r>>
  ELSE IF sorted[Len(sorted)].priority - r.priority > 0
       THEN Append(insertByPriority(SubSeq(sorted, 1, Len(sorted) - 1), r),
                   sorted[Len(sorted)])
       ELSE Append(sorted, r)

\* a sort that leaves the rules in the order they came in
sortByPriorityKeepOrder(rules) == rules

RECURSIVE sortByPriority(_)
sortByPriority(rules) ==
  IF rules = <<>> THEN <<>>
  ELSE insertByPriority(sortByPriority(SubSeq(rules, 1, Len(rules) - 1)),
                        rules[Len(rules)])

\* ruleResult.variant_key || flag_config.default_variant
variantOrDefault(ruleResult, flag_config) ==
  IF Has(ruleResult, "variant_key") /\ ruleResult.variant_key # ""
  THEN ruleResult.variant_key ELSE flag_config.default_variant

\* The loop over sortedRules: the Decision of the first matching rule, or
\* [matched |-> FALSE] when none matches.
RECURSIVE firstMatch(_, _, _, _, _)
firstMatch(sortedRules, i, user_context, variants, flag_config) ==
  IF i > Len(sortedRules) THEN [matched |-> FALSE]
  ELSE LET ruleResult == evaluateRule(sortedRules[i], user_context, variants)
       IN IF ruleResult.matched
          THEN [matched |-> TRUE,
                enabled |-> TRUE,
                variant |-> variantOrDefault(ruleResult, flag_config),
                reason  |-> ruleResult.reason]
          ELSE firstMatch(sortedRules, i + 1, user_context, variants, flag_config)

\* RuleEngine.evaluateFlag after the is_enabled test: rules, then rollout
evaluateEnabledFlag(context, rnd) ==
  LET flag_config == context.flag_config
      sortedRules == sortByPriority(context.rules)
      hit         == firstMatch(sortedRules, 1, context.user_context,
                                context.variants, flag_config)
  IN IF hit.matched
     THEN [enabled |-> TRUE, variant |-> hit.variant, reason |-> hit.reason]
     ELSE LET rolloutResult == evaluatePercentageRollout(
                                 flag_config.rollout_percentage,
                                 context.user_context, flag_config.flag_id)
          IN IF rolloutResult.matched
             THEN [enabled |-> TRUE,
                   variant |-> selectVariantByWeight(context.variants, rnd).key,
                   reason  |-> "percentage_rollout"]
             ELSE [enabled |-> FALSE,
                   variant |-> flag_config.default_variant,
                   reason  |-> "not_in_rollout"]

\* evaluateFlag without the is_enabled test
evaluateFlagIgnoringEnabled(context, rnd) == evaluateEnabledFlag(context, rnd)

\* RuleEngine.evaluateFlag
evaluateFlag(context, rnd) ==
  IF ~context.flag_config.is_enabled
  THEN [enabled |-> FALSE,
        variant |-> context.flag_config.default_variant,
        reason  |-> "flag_disabled"]
  ELSE evaluateEnabledFlag(context, rnd)

\* rules.sort(...) sorts the array of the context in place; it runs only
\* when the flag is enabled.
rulesAfterEvaluate(context) ==
  IF ~context.flag_config.is_enabled THEN context.rules
  ELSE sortByPriority(context.rules)

\* EvaluationService.createEvaluationResponse (timestamp left out)
createEvaluationResponse(flagKey, value, variantKey, reason) ==
  [flag_key |-> flagKey, value |-> value, variant_key |-> variantKey, reason |-> reason]

\* ------------------------------------------------------------------------
\* State
\* ------------------------------------------------------------------------
VARIABLES
  ectx,        \* EngineSpec: the request and snapshot handed to the evaluation
  erules,      \* EngineSpec: the rules array of the snapshot (sorted in place)
  ernd,        \* EngineSpec: the Math.random() draw of the evaluation
  edecision,   \* EngineSpec: what RuleEngine.evaluateFlag returned
  eresponse,   \* EngineSpec: the EvaluationResponse built from it
  epc,         \* EngineSpec: "ready" -> "decided" -> "responded"
  feature_flags,  \* store: table feature_flags, flag key -> row
  flag_configs,   \* store: table flag_configs joined with environments,
                  \*        <<flag key, environment name>> -> row
  redis,          \* cache: the Redis keyspace, physical key -> JSON text
  evals,          \* evaluation service: the POST /evaluate requests in flight
  admins,         \* control plane: the mutation request in flight
  background,     \* control plane: toggles of a kill switch still running
                  \*                after their handler has responded
  acked,          \* history: per environment, the updated_at of the latest
                  \*          config commit whose handler answered 200
  deleteAcked,    \* history: DELETE /api/flags/:key has answered 200
  killAckedAt,    \* history: value of mutCount when the latest kill switch
                  \*          answered 200 (0: none)
  mutCount,       \* history: number of mutation requests received
  evalCount,      \* history: number of evaluation requests received
  flag_variants,  \* store: table flag_variants, flag key -> rows in insertion order
  repo,           \* StoreSpec: the FlagRepository call in flight and its transaction
  reader,         \* StoreSpec: the getFlagConfig results of a concurrent reader
  audit_log,      \* store: table audit_log, rows in insertion order
  batch,          \* evaluation service: the POST /evaluate/batch in flight
  sdk             \* CanarySDK: the fields of one instance, its pending
                  \*            promises and the events it has emitted

evars == <<ectx, erules, ernd, edecision, eresponse, epc>>

svars == <<feature_flags, flag_configs, redis, evals, admins, background,
           acked, deleteAcked, killAckedAt, mutCount, evalCount, flag_variants>>

rvars == <<repo, reader>>

xvars == <<audit_log, batch, sdk>>

vars == <<evars, svars, rvars, xvars>>

\* ------------------------------------------------------------------------
\* EngineSpec: inputs
\* ------------------------------------------------------------------------
Str(v) == [t |-> "str", s |-> v]
Num(v) == [t |-> "num", n |-> v]
Bool(v) == [t |-> "bool", b |-> v]

Percentages == {0, 1, 50, 51, 100}

EngineConfigs ==
  [is_enabled : BOOLEAN, default_variant : {"false", "control"},
   rollout_percentage : Percentages, flag_id : {"flag-1"}]

BooleanVariants ==
  << [id |-> "v-true",  key |-> "true",  value |-> "true",  weight |-> 50],
     [id |-> "v-false", key |-> "false", value |-> "false", weight |-> 50] >>

StringVariants ==
  << [id |-> "v-control",   key |-> "control",   value |-> "off", weight |-> 0],
     [id |-> "v-treatment", key |-> "treatment", value |-> "on",  weight |-> 100] >>

\* (flag_type, variants) of the flags of the model
EngineFlags ==
  { [flag_type |-> "boolean", variants |-> <<>>],
    [flag_type |-> "boolean", variants |-> BooleanVariants],
    [flag_type |-> "string",  variants |-> StringVariants] }

EngineUsers ==
  { [user_id |-> U39, attributes |-> [country |-> Str(<<"U","S">>)]],
    [user_id |-> U3, attributes |-> [country |-> Str(<<"D","E">>)],
     custom_attributes |-> [country |-> Str(<<"u","s">>)]],
    [user_id |-> U67, attributes |-> [age |-> Num(30)]],
    [user_id |-> U221, attributes |-> [country |-> Str(<<"d","e">>)]],
    [attributes |-> [age |-> Num(7)]] }

RulePool ==
  { [id |-> "rule-attr-us", rule_type |-> "attribute", attribute_name |-> "country",
     operator |-> "equals", attribute_value |-> <<"U","S">>,
     variant_key |-> "true", priority |-> 10],
    [id |-> "rule-attr-in", rule_type |-> "attribute", attribute_name |-> "country",
     operator |-> "in", attribute_value |-> <<"d","e",","," ","u","s">>,
     priority |-> 10],
    [id |-> "rule-uid", rule_type |-> "user_id",
     attribute_value |-> <<"u","3","9",","," ","u","6","7">>,
     variant_key |-> "false", priority |-> 5],
    [id |-> "rule-pct", rule_type |-> "percentage", percentage |-> 50,
     variant_key |-> "treatment", priority |-> 20],
    [id |-> "rule-seg", rule_type |-> "segment", variant_key |-> "control",
     priority |-> 1],
    [id |-> "rule-age", rule_type |-> "attribute", attribute_name |-> "age",
     operator |-> "greater_than", attribute_value |-> <<"1","8">>,
     variant_key |-> "control", priority |-> 1] }

DefaultValues == {Bool(FALSE), Bool(TRUE)}

EngineContexts ==
  { [flag_key |-> "checkout", flag_type |-> f.flag_type, flag_config |-> c,
     rules |-> r, variants |-> f.variants, user_context |-> u,
     environment |-> "production", default_value |-> d] :
      f \in EngineFlags, c \in EngineConfigs, r \in SeqsUpTo(RulePool, MaxRules),
      u \in EngineUsers, d \in DefaultValues }

NoDecision == [enabled |-> FALSE, variant |-> "", reason |-> "none"]
NoResponse == createEvaluationResponse("", Bool(FALSE), "", "none")

EngineVarsInit ==
  /\ epc = "ready"
  /\ erules = ectx.rules
  /\ ernd = 0
  /\ edecision = NoDecision
  /\ eresponse = NoResponse

\* the context as the rule engine sees it: the rules array in its current order
engineContext == [ectx EXCEPT !.rules = erules]

\* Math.random() is called only by the weighted walk of selectVariantByWeight:
\* the rollout matched and there are several variants of non-zero total weight
drawsRandom(context) ==
  /\ evaluateFlag(context, 0).reason = "percentage_rollout"
  /\ Len(context.variants) > 1
  /\ sumWeights(context.variants, Len(context.variants)) # 0

\* EvaluationService.evaluateFlag, "Evaluate the flag": the call of
\* ruleEngine.evaluateFlag on the evaluation context
RunRuleEngine ==
  /\ epc = "ready"
  /\ \E rnd \in 0..(RandDenom - 1) :
       /\ ernd' = IF drawsRandom(engineContext) THEN rnd ELSE 0
       /\ edecision' = evaluateFlag(engineContext, rnd)
  /\ erules' = rulesAfterEvaluate(engineContext)
  /\ epc' = "decided"
  /\ UNCHANGED <<ectx, eresponse, svars, rvars, xvars>>

\* EvaluationService.evaluateFlag, the final return: the response built
\* from result.enabled, result.variant and result.reason
RespondDecision ==
  /\ epc = "decided"
  /\ eresponse' = createEvaluationResponse(ectx.flag_key, Bool(edecision.enabled),
                                           edecision.variant, edecision.reason)
  /\ epc' = "responded"
  /\ UNCHANGED <<ectx, erules, ernd, edecision, svars, rvars, xvars>>

\* ------------------------------------------------------------------------
\* Flag store (FlagRepository over PostgreSQL)
\* ------------------------------------------------------------------------
Environments == {"development", "staging", "production"}

FlagKeys == {"checkout"}

\* A timestamp column holds a Date; Date(n) is the n-th value that
\* CURRENT_TIMESTAMP gave to the row (the updated_at trigger and the SET
\* clause move it forward on every UPDATE of the row)
Date(n) == [date |-> n]

laterDate(d) == Date(d.date + 1)

\* the rows of the one flag of the model, as createFlag and later config
\* updates leave them: a flag row, and one config row per environment
InitialFlagRow ==
  [id |-> "flag-1", key |-> "checkout", flag_type |-> "boolean", is_active |-> TRUE,
   updated_at |-> Date(0)]

ConfigIds ==
  [development |-> "config-dev", staging |-> "config-stg", production |-> "config-prod"]

\* enabled at full rollout in the environment
InitialConfigRow(env) ==
  [id |-> ConfigIds[env], flag_id |-> "flag-1", is_enabled |-> TRUE,
   default_variant |-> "false", rollout_percentage |-> 100,
   config_data |-> "{}", rules |-> <<>>, updated_at |-> Date(0)]

\* FlagRepository.getFlagConfig: the pre-joined snapshot, or Null.
\* SELECT f.*, fc.* returns one row object in which the columns of fc
\* overwrite the columns of f of the same name (id, updated_at).
Null == [null |-> TRUE]

\* the object getFlagConfig builds from the row of its one SELECT: flag row
\* f, config row fc with its rules, and the variant rows of the flag
snapshotOf(f, fc, variants) ==
  [flag     |-> [id |-> fc.id, key |-> f.key, flag_type |-> f.flag_type,
                 is_active |-> f.is_active, updated_at |-> fc.updated_at],
   config   |-> [id |-> fc.id, flag_id |-> fc.flag_id,
                 is_enabled |-> fc.is_enabled,
                 default_variant |-> fc.default_variant,
                 rollout_percentage |-> fc.rollout_percentage,
                 config_data |-> fc.config_data,
                 updated_at |-> fc.updated_at],
   variants |-> variants,
   rules    |-> fc.rules]

\* The three tables as one value.  A transaction works on its own copy
\* (repo.work) until COMMIT; a statement outside it sees committed rows only.
committedStore ==
  [flags |-> feature_flags, variants |-> flag_variants, configs |-> flag_configs]

\* a read that sees the rows a transaction in progress has written
readUncommitted ==
  IF repo.pc \in {"idle", "done"} THEN committedStore ELSE repo.work

\* what this.pool.query sees: PostgreSQL runs it under READ COMMITTED
readCommitted == committedStore

\* the SELECT of getFlagConfig on the tables of `store`
getFlagConfigIn(store, flagKey, environment) ==
  IF /\ flagKey \in DOMAIN store.flags
     /\ <<flagKey, environment>> \in DOMAIN store.configs
     /\ store.flags[flagKey].is_active
  THEN snapshotOf(store.flags[flagKey], store.configs[<<flagKey, environment>>],
                  store.variants[flagKey])
  ELSE Null

getFlagConfig(flagKey, environment) ==
  getFlagConfigIn(readCommitted, flagKey, environment)

\* The fields of UpdateFlagConfigRequest that updateFlagConfig turns into
\* SET clauses
PatchFields == {"is_enabled", "default_variant", "rollout_percentage", "config_data"}

\* an UPDATE that writes every column, the ones the patch leaves out with
\* the column default
updateRowResetting(old, update) ==
  [f \in DOMAIN old |->
     IF f \in DOMAIN update \cap PatchFields THEN update[f]
     ELSE IF f = "updated_at" THEN laterDate(old.updated_at)
     ELSE IF f = "is_enabled" THEN FALSE
     ELSE IF f = "rollout_percentage" THEN 0
     ELSE IF f = "config_data" THEN "{}"
     ELSE old[f]]

\* the row after UPDATE flag_configs SET <one clause per field of the patch>,
\* updated_at = CURRENT_TIMESTAMP WHERE id = <the row>
updateRow(old, update) ==
  [f \in DOMAIN old |->
     IF f \in DOMAIN update \cap PatchFields THEN update[f]
     ELSE IF f = "updated_at" THEN laterDate(old.updated_at)
     ELSE old[f]]

\* (field :> value) when the rule has the field and `value || null` is the
\* value; no field (NULL column) otherwise
orNull(rule, f, falsy) ==
  IF Has(rule, f) /\ rule[f] # falsy THEN f :> rule[f] ELSE <<>>

\* gen_random_uuid() of the n-th rule row a transaction inserts
RuleIds == <<"rule-new-1", "rule-new-2", "rule-new-3">>

\* the row of INSERT INTO rollout_rules for one rule of the patch
storedRule(rule, n) ==
  [id |-> RuleIds[n], rule_type |-> rule.rule_type,
   priority |-> IF Has(rule, "priority") /\ rule.priority # 0
                THEN rule.priority ELSE 100]
  @@ orNull(rule, "attribute_name", "") @@ orNull(rule, "operator", "")
  @@ orNull(rule, "attribute_value", <<>>) @@ orNull(rule, "percentage", 0)
  @@ orNull(rule, "variant_key", "")

\* the rows of a config after DELETE FROM rollout_rules and the INSERT loop
storedRules(rules) == [n \in 1..Len(rules) |-> storedRule(rules[n], n)]

\* FlagRepository.updateFlagConfig, the transaction: [ok, configs, error].
\* The lookup does not test is_active.
updateFlagConfig(flagKey, environment, update) ==
  IF <<flagKey, environment>> \notin DOMAIN flag_configs \/ flagKey \notin DOMAIN feature_flags
  THEN [ok |-> FALSE, configs |-> flag_configs, error |-> "not found"]
  ELSE IF DOMAIN update \cap PatchFields = {}
  THEN [ok |-> FALSE, configs |-> flag_configs, error |-> "No fields to update"]
  ELSE LET updated == updateRow(flag_configs[<<flagKey, environment>>], update)
           row == IF Has(update, "rules")
                  THEN [updated EXCEPT !.rules = storedRules(update.rules)]
                  ELSE updated
       IN [ok |-> TRUE,
           configs |-> [flag_configs EXCEPT ![<<flagKey, environment>>] = row],
           error |-> ""]

\* FlagRepository.toggleFlag
toggleFlag(flagKey, environment, enabled) ==
  updateFlagConfig(flagKey, environment, [is_enabled |-> enabled])

\* FlagRepository.deleteFlag: [ok, flags, error]
deleteFlag(flagKey) ==
  IF flagKey \notin DOMAIN feature_flags
  THEN [ok |-> FALSE, flags |-> feature_flags, error |-> "not found"]
  ELSE [ok |-> TRUE,
        flags |-> [feature_flags EXCEPT ![flagKey].is_active = FALSE,
                                       ![flagKey].updated_at = laterDate(@)],
        error |-> ""]

\* ------------------------------------------------------------------------
\* Config cache (ioredis client created with keyPrefix)
\* ------------------------------------------------------------------------
KEY_PREFIX == <<"canary:">>

CACHE_PREFIX == <<"flag_config:">>

\* The text of a flag key as the sequence of its pieces, cut so that a key
\* of the model that is a prefix of another one ("check" of "checkout") is
\* a piece of its own
keyText(flagKey) == IF flagKey = "checkout" THEN <<"check", "out">> ELSE <<flagKey>>

\* `${CACHE_PREFIX}${flag_key}:${environment}`
cacheKeyOf(flagKey, environment) ==
  CACHE_PREFIX \o keyText(flagKey) \o <<":", environment>>

\* `${CACHE_PREFIX}${flagKey}:*`
cachePatternOf(flagKey) == CACHE_PREFIX \o keyText(flagKey) \o <<":", "*">>

\* The client puts keyPrefix in front of the key arguments of GET, SETEX and
\* DEL.  It does not put it in front of the pattern of KEYS, and it returns
\* the keys of a KEYS reply as the server stores them.
withKeyPrefix(key) == KEY_PREFIX \o key

\* glob match of a pattern ending in "*"
globMatch(pattern, key) ==
  LET n == Len(pattern) - 1
  IN Len(key) >= n /\ SubSeq(key, 1, n) = SubSeq(pattern, 1, n)

redisGet(key) ==
  IF withKeyPrefix(key) \in DOMAIN redis THEN redis[withKeyPrefix(key)] ELSE Null

redisSetex(key, value) ==
  [k \in DOMAIN redis \cup {withKeyPrefix(key)} |->
     IF k = withKeyPrefix(key) THEN value ELSE redis[k]]

redisDelFlushing(keys) == <<>>

redisDel(keys) ==
  [k \in DOMAIN redis \ {withKeyPrefix(key) : key \in keys} |-> redis[k]]

redisKeys(pattern) == {k \in DOMAIN redis : globMatch(pattern, k)}

\* JSON.stringify then JSON.parse of a snapshot: a Date comes back as its
\* ISO string, everything else of the model comes back equal
IsoString(n) == [iso |-> n]

jsonDate(d) == IF Has(d, "date") THEN IsoString(d.date) ELSE d

jsonRoundTrip(flagData) ==
  [flagData EXCEPT !.flag.updated_at = jsonDate(@),
                   !.config.updated_at = jsonDate(@)]

\* the instant a Date or its ISO string stands for
instantOf(d) == IF Has(d, "date") THEN d.date ELSE d.iso

updatedAtOf(configs, flagKey, environment) ==
  instantOf(configs[<<flagKey, environment>>].updated_at)

\* ------------------------------------------------------------------------
\* Evaluation service: POST /evaluate -> EvaluationService.evaluateFlag
\* ------------------------------------------------------------------------
EvalProcs == {1}

\* flag_key of the evaluation requests: also a flag that does not exist
EvalFlagKeys == FlagKeys \cup {"ghost"}

SystemUsers == { [user_id |-> U39] }

\* JavaScript truthiness, and `v || false`
truthy(v) ==
  CASE v.t = "bool" -> v.b
    [] v.t = "num"  -> v.n # 0
    [] v.t = "str"  -> v.s # <<>>

orFalse(v) == IF truthy(v) THEN v ELSE Bool(FALSE)

IdleEval ==
  [pc |-> "idle", flag_key |-> "checkout", environment |-> "production",
   default_value |-> Bool(FALSE), user_context |-> [user_id |-> U39],
   flagData |-> Null, cacheHit |-> FALSE, response |-> NoResponse,
   status |-> 0,        \* HTTP status the client received, 0: none yet
   faulted |-> FALSE,   \* history: a cache or store call of this request
                        \*          failed, or the cached text did not parse
   cacheHeld |-> Null,  \* history: what the cache read of this request
                        \*          returns when Redis answers
   storeFailed |-> FALSE,  \* history: the store read of this request failed
   rejected |-> FALSE,  \* the promise of the async handler has rejected
   exited |-> FALSE,    \* history: that rejection has ended the process
   ackedAtStart |-> 0, deletedAtStart |-> FALSE, killAtStart |-> FALSE,
   mutAtStart |-> 0]

\* cached texts that are not the JSON of a snapshot: one that JSON.parse
\* rejects, and the JSON of an object without fields
Unparseable == [unparseable |-> TRUE]
EmptyObject == [f \in {} |-> TRUE]

\* EvaluationService.getFlagFromCache: redis.get and JSON.parse; an error of
\* either is caught and gives null
getFlagFromCache(cacheKey, fault) ==
  IF fault \/ Has(redisGet(cacheKey), "unparseable") THEN Null ELSE redisGet(cacheKey)

\* evaluateFlag without its catch block: the error leaves evaluateFlag
evaluateFlagCatchRethrows(r) == [thrown |-> TRUE, response |-> NoResponse]

\* the catch block of EvaluationService.evaluateFlag: every error of the
\* try block is turned into a response, none leaves evaluateFlag
evaluateFlagCatch(r) ==
  [thrown   |-> FALSE,
   response |-> createEvaluationResponse(r.flag_key, orFalse(r.default_value),
                                         "default", "evaluation_error")]

\* POST /evaluate after `await evaluationService.evaluateFlag`: res.json(result),
\* or the 500 of the handler's catch block when evaluateFlag threw
handlerStatus(outcome) == IF outcome.thrown THEN 500 ELSE 200

\* A response is sent once: after the 408 of the timeout middleware, res.json
\* throws on the headers already sent and the client keeps the 408
sendOnce(r, status) == IF r.status = 0 THEN status ELSE r.status

\* POST /evaluate when res.json(result) throws on the headers already sent:
\* the catch block of the handler calls res.status(500).json(...), which
\* throws the same way, and the promise of the async handler rejects
handlerRejects(r) == r.status # 0

\* process.exit(1) has not run
processRunning == \A e \in DOMAIN evals : ~evals[e].exited

\* RuleEngine.validateContext on the context built from flagData
validateContext(flagData, user_context, environment) ==
  /\ Has(flagData, "config")
  /\ Has(flagData, "rules")
  /\ Has(flagData, "variants")
  /\ environment # ""

\* POST /evaluate with a body that has flag_key: the handler builds the
\* EvaluationRequest and calls evaluateFlag, which runs up to its first await
EvalReceive(e, flagKey, env, dflt, user) ==
  /\ evals[e].pc \in {"idle", "done"}
  /\ processRunning
  /\ evalCount < MaxEvaluations
  /\ evalCount' = evalCount + 1
  /\ evals' = [evals EXCEPT ![e] =
       [IdleEval EXCEPT !.pc = "cache_get", !.flag_key = flagKey,
                        !.environment = env, !.default_value = dflt,
                        !.user_context = user,
                        !.ackedAtStart = acked[env],
                        !.deletedAtStart = deleteAcked,
                        !.killAtStart = (killAckedAt # 0 /\ killAckedAt = mutCount),
                        !.mutAtStart = mutCount]]
  /\ UNCHANGED <<feature_flags, flag_configs, redis, admins, background,
                 acked, deleteAcked, killAckedAt, mutCount, evars, flag_variants, rvars, xvars>>

\* getFlagFromCache: redis.get + JSON.parse; a failing read is a miss
EvalCacheGet(e, fault) ==
  /\ evals[e].pc = "cache_get"
  /\ processRunning
  /\ LET key    == cacheKeyOf(evals[e].flag_key, evals[e].environment)
         cached == getFlagFromCache(key, fault)
         failed == fault \/ Has(redisGet(key), "unparseable")
     IN evals' = [evals EXCEPT ![e] =
          IF cached # Null
          THEN [@ EXCEPT !.pc = "evaluate", !.flagData = cached, !.cacheHit = TRUE,
                         !.cacheHeld = cached]
          ELSE [@ EXCEPT !.pc = "store_get", !.faulted = @ \/ failed,
                         !.cacheHeld = getFlagFromCache(key, FALSE)]]
  /\ UNCHANGED <<feature_flags, flag_configs, redis, admins, background,
                 acked, deleteAcked, killAckedAt, mutCount, evalCount, evars, flag_variants, rvars, xvars>>

\* flagRepository.getFlagConfig on a cache miss; a throw goes to the catch
\* of evaluateFlag, an absent flag answers flag_not_found
EvalStoreGet(e, fault) ==
  /\ evals[e].pc = "store_get"
  /\ processRunning
  /\ LET r    == evals[e]
         data == getFlagConfig(r.flag_key, r.environment)
     IN evals' = [evals EXCEPT ![e] =
          IF fault
          THEN [@ EXCEPT !.pc = "done", !.faulted = TRUE, !.storeFailed = TRUE,
                         !.response = evaluateFlagCatch(r).response,
                         !.status = sendOnce(r, handlerStatus(evaluateFlagCatch(r))),
                         !.rejected = handlerRejects(r)]
          ELSE IF data = Null
          THEN [@ EXCEPT !.pc = "done",
                         !.response = createEvaluationResponse(
                            r.flag_key, r.default_value, "default", "flag_not_found"),
                         !.status = sendOnce(r, 200),
                         !.rejected = handlerRejects(r)]
          ELSE [@ EXCEPT !.pc = "cache_set", !.flagData = data]]
  /\ UNCHANGED <<feature_flags, flag_configs, redis, admins, background,
                 acked, deleteAcked, killAckedAt, mutCount, evalCount, evars, flag_variants, rvars, xvars>>

\* cacheFlagData: redis.setex(cacheKey, CACHE_TTL, JSON.stringify(flagData));
\* a failing write is logged and ignored
EvalCacheSet(e, fault) ==
  /\ evals[e].pc = "cache_set"
  /\ processRunning
  /\ redis' = IF fault THEN redis
              ELSE redisSetex(cacheKeyOf(evals[e].flag_key, evals[e].environment),
                              jsonRoundTrip(evals[e].flagData))
  /\ evals' = [evals EXCEPT ![e].pc = "evaluate", ![e].faulted = @ \/ fault]
  /\ UNCHANGED <<feature_flags, flag_configs, admins, background,
                 acked, deleteAcked, killAckedAt, mutCount, evalCount, evars, flag_variants, rvars, xvars>>

\* the rest of evaluateFlag: build and validate the context, run the rule
\* engine, build the response
EvalRuleEngine(e, rnd) ==
  /\ evals[e].pc = "evaluate"
  /\ processRunning
  /\ LET r       == evals[e]
         context == [user_context |-> r.user_context,
                     flag_config  |-> r.flagData.config,
                     rules        |-> r.flagData.rules,
                     variants     |-> r.flagData.variants,
                     environment  |-> r.environment]
         result  == evaluateFlag(context, rnd)
     IN evals' = [evals EXCEPT ![e] =
          IF ~validateContext(r.flagData, r.user_context, r.environment)
          THEN [@ EXCEPT !.pc = "done",
                         !.response = createEvaluationResponse(
                            r.flag_key, r.default_value, "default", "invalid_context"),
                         !.status = sendOnce(r, 200),
                         !.rejected = handlerRejects(r)]
          ELSE [@ EXCEPT !.pc = "done",
                         !.flagData.rules = rulesAfterEvaluate(context),
                         !.response = createEvaluationResponse(
                            r.flag_key, Bool(result.enabled), result.variant,
                            result.reason),
                         !.status = sendOnce(r, 200),
                         !.rejected = handlerRejects(r)]]
  /\ UNCHANGED <<feature_flags, flag_configs, redis, admins, background,
                 acked, deleteAcked, killAckedAt, mutCount, evalCount, evars, flag_variants, rvars, xvars>>

\* Request timeout middleware: 5 s after the request arrived and before the
\* handler has answered, res.setTimeout answers 408; evaluateFlag goes on
EvalTimeout(e) ==
  /\ evals[e].pc \in {"cache_get", "store_get", "cache_set", "evaluate"}
  /\ processRunning
  /\ evals[e].status = 0
  /\ evals' = [evals EXCEPT ![e].status = 408]
  /\ UNCHANGED <<feature_flags, flag_configs, redis, admins, background,
                 acked, deleteAcked, killAckedAt, mutCount, evalCount, evars, flag_variants, rvars, xvars>>

\* process.on('unhandledRejection'): the rejected promise of the handler has
\* no catch (Express 4 drops the promise an async handler returns), the
\* listener logs and calls process.exit(1).  Where the router catches the
\* promise (Express 5) this step is never taken.
UnhandledRejection(e) ==
  /\ processRunning
  /\ evals[e].rejected
  /\ evals' = [evals EXCEPT ![e].exited = TRUE]
  /\ UNCHANGED <<feature_flags, flag_configs, redis, admins, background,
                 acked, deleteAcked, killAckedAt, mutCount, evalCount, evars, flag_variants, rvars, xvars>>

\* the TTL of a cache entry (CACHE_TTL seconds) runs out
CacheExpire(k) ==
  /\ k \in DOMAIN redis
  /\ redis' = [x \in DOMAIN redis \ {k} |-> redis[x]]
  /\ UNCHANGED <<feature_flags, flag_configs, evals, admins, background,
                 acked, deleteAcked, killAckedAt, mutCount, evalCount, evars, flag_variants, rvars, xvars>>

\* ------------------------------------------------------------------------
\* Evaluation service: POST /evaluate/batch
\* ------------------------------------------------------------------------
\* `requests.length > 50`
MaxBatchSize == 50

\* An element of the requests array, as JSON.parse delivers it: null, or an
\* object; flag_key and environment may be missing ("" stands for
\* undefined).
NullItem ==
  [null |-> TRUE, flag_key |-> "", environment |-> "", user_context |-> EmptyObject]

BatchItem(flagKey, env, user) ==
  [null |-> FALSE, flag_key |-> flagKey, environment |-> env, user_context |-> user]

\* the body of no request; `requests` of a body is an array or something else
IdleBatch ==
  [pc |-> "idle", body |-> [isArray |-> FALSE, requests |-> <<>>],
   status |-> 0, results |-> <<>>]

\* the validation loop from element i on: "throws" on the property read of
\* null, 400 on the first element whose flag_key is falsy, 0 when the loop
\* ends
RECURSIVE validateFrom(_, _)
validateFrom(requests, i) ==
  IF i > Len(requests) THEN 0
  ELSE IF requests[i].null THEN 500
  ELSE IF requests[i].flag_key = "" THEN 400
  ELSE validateFrom(requests, i + 1)

\* the checks of the handler before evaluateBatch: the status they answer (the
\* 500 is the handler's catch block), or 0 when evaluateBatch is called
validateBatch(body) ==
  IF ~body.isArray THEN 400
  ELSE IF Len(body.requests) > MaxBatchSize THEN 400
  ELSE validateFrom(body.requests, 1)

\* the defaults the loop sets on an element (user_context || {} leaves
\* EmptyObject, which stands for undefined and for {} alike)
withDefaults(request) ==
  [request EXCEPT !.environment = IF @ = "" THEN "production" ELSE @]

\* POST /evaluate/batch up to the first await: the checks and, when they
\* pass, evaluateBatch, which starts evaluateFlag for every element at once
\* (requests.map); each runs up to its first await
BatchReceive(body) ==
  /\ batch.pc \in {"idle", "done"}
  /\ evalCount < MaxEvaluations
  /\ evalCount' = evalCount + 1
  /\ IF validateBatch(body) # 0
     THEN /\ batch' = [IdleBatch EXCEPT !.pc = "done", !.body = body,
                                        !.status = validateBatch(body)]
          /\ UNCHANGED evals
     ELSE /\ batch' = [IdleBatch EXCEPT !.pc = "evaluating", !.body = body]
          /\ evals' = [i \in 1..Len(body.requests) |->
               LET request == withDefaults(body.requests[i])
               IN [IdleEval EXCEPT !.pc = "cache_get",
                                   !.flag_key = request.flag_key,
                                   !.environment = request.environment,
                                   !.user_context = request.user_context,
                                   !.ackedAtStart = acked[request.environment],
                                   !.deletedAtStart = deleteAcked,
                                   !.mutAtStart = mutCount]]
  /\ UNCHANGED <<feature_flags, flag_configs, redis, admins, background,
                 acked, deleteAcked, killAckedAt, mutCount, evars, flag_variants,
                 rvars, audit_log, sdk>>

\* Promise.all has resolved: res.json({ results })
BatchRespond ==
  /\ batch.pc = "evaluating"
  /\ \A e \in DOMAIN evals : evals[e].pc = "done"
  /\ batch' = [batch EXCEPT !.pc = "done", !.status = 200,
                            !.results = [e \in DOMAIN evals |-> evals[e].response]]
  /\ UNCHANGED <<feature_flags, flag_configs, redis, evals, admins, background,
                 acked, deleteAcked, killAckedAt, mutCount, evalCount, evars,
                 flag_variants, rvars, audit_log, sdk>>

\* ------------------------------------------------------------------------
\* Control plane: the mutation endpoints
\* ------------------------------------------------------------------------
AdminProcs == {1}

\* the requests of the model: config updates and toggles address production,
\* evaluations address production and staging
UpdatePatches == { [rollout_percentage |-> 0] }

MutationEnvironments == {"production"}

\* :flagKey and :environment of the mutation requests: also a flag that does
\* not exist and an environment that is none of the three
MutationFlagKeys == FlagKeys \cup {"ghost"}

RequestEnvironments == MutationEnvironments \cup {"qa"}

EvaluationEnvironments == {"production", "staging"}

SystemDefaultValues == {Bool(TRUE)}

NoToggles == [env \in Environments |-> "none"]

\* ------------------------------------------------------------------------
\* Control plane: the API-key gate in front of every route
\* ------------------------------------------------------------------------
\* A header value is a string written as the sequence of its pieces, cut so
\* that 'Bearer ' is always a piece of its own; a header the request does not
\* carry reads as undefined.
Undefined == [present |-> FALSE, value |-> <<>>]

HeaderValue(v) == [present |-> TRUE, value |-> v]

\* process.env.API_KEY || 'canary-admin-key'
validApiKey == <<"canary", "-admin-key">>

\* String.prototype.replace(pattern, '') with a string pattern: the first
\* occurrence goes, wherever it is
RECURSIVE replaceFirst(_, _)
replaceFirst(s, pattern) ==
  IF s = <<>> THEN <<>>
  ELSE IF Head(s) = pattern THEN Tail(s)
  ELSE <<Head(s)>> \o replaceFirst(Tail(s), pattern)

\* a JavaScript string in a condition: undefined and '' are falsy
truthyString(h) == h.present /\ h.value # <<>>

\* req.headers['x-api-key'] || req.headers['authorization']?.replace('Bearer ', '')
apiKeyOf(headers) ==
  IF truthyString(headers.x_api_key) THEN headers.x_api_key
  ELSE IF headers.authorization.present
       THEN HeaderValue(replaceFirst(headers.authorization.value, "Bearer "))
       ELSE Undefined

\* authenticateApiKey: the status it answers, or 0 when it calls next()
authenticateApiKey(headers) ==
  LET apiKey == apiKeyOf(headers)
  IN IF ~truthyString(apiKey) \/ apiKey.value # validApiKey THEN 401 ELSE 0

ExemptPaths == {"/health", "/test-db"}

\* app.use((req, res, next) => ...): the two exempt paths skip the check
gate(path, headers) ==
  IF path \in ExemptPaths THEN 0 ELSE authenticateApiKey(headers)

\* the path of each route of the model
pathOf(op) ==
  CASE op = "update" -> "/api/flags/:flagKey/environments/:environment"
    [] op = "toggle" -> "/api/flags/:flagKey/environments/:environment/toggle"
    [] op = "kill"   -> "/api/flags/:flagKey/kill-switch"
    [] op = "delete" -> "/api/flags/:flagKey"
    [] op = "health" -> "/health"
    [] op = "test-db" -> "/test-db"

\* the header values requests are sent with
ApiKeyValues == {Undefined, HeaderValue(validApiKey), HeaderValue(<<"wrong">>)}

AuthorizationValues ==
  {Undefined,
   HeaderValue(<<"Bearer ", "canary", "-admin-key">>),
   HeaderValue(<<"Bearer ", "wrong">>),
   HeaderValue(<<"Basic ", "canary", "-admin-key">>),
   HeaderValue(<<"canary", "-admin-key">>),
   HeaderValue(<<"canary", "Bearer ", "-admin-key">>)}

RequestHeaders ==
  [x_api_key : ApiKeyValues, authorization : AuthorizationValues]

\* the headers of the admin client of the system model
AdminHeaders ==
  { [x_api_key |-> HeaderValue(validApiKey), authorization |-> Undefined] }

IdleAdmin ==
  [pc |-> "idle", op |-> "none", req |-> 0, flag_key |-> "checkout",
   headers |-> [x_api_key |-> Undefined, authorization |-> Undefined],
   environment |-> "production", patch |-> [is_enabled |-> FALSE],
   toggles |-> NoToggles,
   enabledBefore |-> FALSE,  \* history: when the request arrived the flag was
                             \*          active and enabled in every environment
   committed |-> {},       \* history: environments whose config this request
                           \*          committed before its response
   committedLate |-> {},   \* history: environments whose config this request
                           \*          committed after its response
   commitAt |-> [env \in Environments |-> 0],  \* history: updated_at of those commits
   invalidated |-> {},     \* history: committed environments whose key the
                           \*          invalidation step of this request removed
   invalidationFailed |-> FALSE,  \* history: the invalidation step threw
   storeFault |-> FALSE,   \* history: a store call of this request failed
                           \*          for a reason other than a missing row
   targetExisted |-> TRUE, \* history: when the request arrived the store had
                           \*          the flag (and, for update and toggle,
                           \*          its config in the environment)
   status |-> 0]           \* HTTP status of the response, 0: none yet

AdminFree(a) == admins[a].pc \in {"idle", "done"} /\ mutCount < MaxMutations

\* PUT /api/flags/:flagKey/environments/:environment, up to updateFlagConfig
PutFlagConfig(a, flagKey, env, patch, headers) ==
  /\ AdminFree(a)
  /\ gate(pathOf("update"), headers) = 0
  /\ mutCount' = mutCount + 1
  /\ admins' = [admins EXCEPT ![a] =
       IF env \notin {"development", "staging", "production"}
       THEN [IdleAdmin EXCEPT !.pc = "done", !.op = "update", !.req = mutCount + 1, !.headers = headers,
                              !.flag_key = flagKey, !.environment = env,
                              !.patch = patch, !.status = 400,
                              !.targetExisted = <<flagKey, env>> \in DOMAIN flag_configs]
       ELSE [IdleAdmin EXCEPT !.pc = "store_update", !.op = "update",
                              !.req = mutCount + 1, !.headers = headers,
                              !.flag_key = flagKey, !.environment = env, !.patch = patch,
                              !.targetExisted = <<flagKey, env>> \in DOMAIN flag_configs]]
  /\ UNCHANGED <<feature_flags, flag_configs, redis, evals, background,
                 acked, deleteAcked, killAckedAt, evalCount, evars, flag_variants, rvars, xvars>>

\* PATCH /api/flags/:flagKey/environments/:environment/toggle with a boolean
\* `enabled`, up to toggleFlag
PatchToggle(a, flagKey, env, enabled, headers) ==
  /\ AdminFree(a)
  /\ gate(pathOf("toggle"), headers) = 0
  /\ mutCount' = mutCount + 1
  /\ admins' = [admins EXCEPT ![a] =
       [IdleAdmin EXCEPT !.pc = "store_update", !.op = "toggle", !.req = mutCount + 1, !.headers = headers,
                         !.flag_key = flagKey, !.environment = env,
                         !.patch = [is_enabled |-> enabled],
                         !.targetExisted = <<flagKey, env>> \in DOMAIN flag_configs]]
  /\ UNCHANGED <<feature_flags, flag_configs, redis, evals, background,
                 acked, deleteAcked, killAckedAt, evalCount, evars, flag_variants, rvars, xvars>>

\* POST /api/flags/:flagKey/kill-switch: starts toggleFlag(flagKey, env, false)
\* for the three environments at once and awaits Promise.all
PostKillSwitch(a, flagKey, headers) ==
  /\ AdminFree(a)
  /\ gate(pathOf("kill"), headers) = 0
  /\ mutCount' = mutCount + 1
  /\ admins' = [admins EXCEPT ![a] =
       [IdleAdmin EXCEPT !.pc = "kill_toggles", !.op = "kill", !.req = mutCount + 1, !.headers = headers,
                         !.flag_key = flagKey,
                         !.targetExisted = flagKey \in DOMAIN feature_flags,
                         !.enabledBefore =
                            /\ flagKey \in DOMAIN feature_flags
                            /\ feature_flags[flagKey].is_active
                            /\ \A env \in Environments :
                                 flag_configs[<<flagKey, env>>].is_enabled,
                         !.toggles = [env \in Environments |-> "pending"]]]
  /\ UNCHANGED <<feature_flags, flag_configs, redis, evals, background,
                 acked, deleteAcked, killAckedAt, evalCount, evars, flag_variants, rvars, xvars>>

\* DELETE /api/flags/:flagKey, up to deleteFlag
DeleteFlagRequest(a, flagKey, headers) ==
  /\ AdminFree(a)
  /\ gate(pathOf("delete"), headers) = 0
  /\ mutCount' = mutCount + 1
  /\ admins' = [admins EXCEPT ![a] =
       [IdleAdmin EXCEPT !.pc = "store_delete", !.op = "delete", !.req = mutCount + 1, !.headers = headers,
                         !.flag_key = flagKey,
                         !.targetExisted = flagKey \in DOMAIN feature_flags]]
  /\ UNCHANGED <<feature_flags, flag_configs, redis, evals, background,
                 acked, deleteAcked, killAckedAt, evalCount, evars, flag_variants, rvars, xvars>>

\* a request the gate answers itself with 401: no route handler runs
AdminReject(a, op, flagKey, headers) ==
  /\ admins[a].pc \in {"idle", "done"}
  /\ gate(pathOf(op), headers) = 401
  /\ admins' = [admins EXCEPT ![a] =
       [IdleAdmin EXCEPT !.pc = "done", !.op = op, !.flag_key = flagKey,
                         !.headers = headers, !.status = 401]]
  /\ UNCHANGED <<feature_flags, flag_configs, redis, evals, background, acked,
                 deleteAcked, killAckedAt, mutCount, evalCount, evars,
                 flag_variants, rvars, xvars>>

\* GET /health: answered without a credential
GetHealth(a, headers) ==
  /\ admins[a].pc \in {"idle", "done"}
  /\ gate(pathOf("health"), headers) = 0
  /\ admins' = [admins EXCEPT ![a] =
       [IdleAdmin EXCEPT !.pc = "done", !.op = "health", !.headers = headers,
                         !.status = 200]]
  /\ UNCHANGED <<feature_flags, flag_configs, redis, evals, background, acked,
                 deleteAcked, killAckedAt, mutCount, evalCount, evars,
                 flag_variants, rvars, xvars>>

\* GET /test-db: listFlags(1, 1) and 200, or 500 when the query throws
GetTestDb(a, headers, fault) ==
  /\ admins[a].pc \in {"idle", "done"}
  /\ gate(pathOf("test-db"), headers) = 0
  /\ admins' = [admins EXCEPT ![a] =
       [IdleAdmin EXCEPT !.pc = "done", !.op = "test-db", !.headers = headers,
                         !.storeFault = fault,
                         !.status = IF fault THEN 500 ELSE 200]]
  /\ UNCHANGED <<feature_flags, flag_configs, redis, evals, background, acked,
                 deleteAcked, killAckedAt, mutCount, evalCount, evars,
                 flag_variants, rvars, xvars>>

\* PUT and PATCH handlers: the store transaction of updateFlagConfig /
\* toggleFlag and, when it throws, the catch block of the handler
\* (PUT: 404 when the message has "not found", else 500; PATCH: 500)
AdminStoreUpdate(a, fault) ==
  /\ admins[a].pc = "store_update"
  /\ LET r   == admins[a]
         res == updateFlagConfig(r.flag_key, r.environment, r.patch)
     IN IF fault
        THEN /\ admins' = [admins EXCEPT ![a].pc = "done", ![a].status = 500,
                                         ![a].storeFault = TRUE]
             /\ UNCHANGED flag_configs
        ELSE IF res.ok
        THEN /\ flag_configs' = res.configs
             /\ admins' = [admins EXCEPT ![a].pc = "invalidate",
                                         ![a].committed = {r.environment},
                                         ![a].commitAt[r.environment] =
                                            updatedAtOf(res.configs, r.flag_key, r.environment)]
        ELSE /\ admins' = [admins EXCEPT ![a].pc = "done",
                  ![a].status = IF r.op = "update" /\ res.error = "not found"
                                THEN 404 ELSE 500]
             /\ UNCHANGED flag_configs
  /\ UNCHANGED <<feature_flags, redis, evals, background,
                 acked, deleteAcked, killAckedAt, mutCount, evalCount, evars, flag_variants, rvars, xvars>>

\* EvaluationService.invalidateCache(flagKey, environment): redis.del of the
\* one key; an error of the cache is caught and logged inside invalidateCache
AdminInvalidate(a, fault) ==
  /\ admins[a].pc = "invalidate"
  /\ LET r == admins[a]
     IN /\ redis' = IF fault THEN redis
                    ELSE redisDel({cacheKeyOf(r.flag_key, r.environment)})
        /\ admins' = [admins EXCEPT ![a].pc = "respond",
                                    ![a].invalidationFailed = fault,
                                    ![a].invalidated =
                                       IF fault THEN {} ELSE {r.environment}]
  /\ UNCHANGED <<feature_flags, flag_configs, evals, background,
                 acked, deleteAcked, killAckedAt, mutCount, evalCount, evars, flag_variants, rvars, xvars>>

\* EvaluationService.invalidateCache(flagKey): redis.keys(pattern), and
\* redis.del(...keys) when KEYS returned keys; errors are caught as above
AdminInvalidateAll(a, fault) ==
  /\ admins[a].pc = "invalidate_all"
  /\ LET r    == admins[a]
         keys == redisKeys(cachePatternOf(r.flag_key))
         next == IF fault \/ keys = {} THEN redis ELSE redisDel(keys)
     IN /\ redis' = next
        /\ admins' = [admins EXCEPT ![a].pc = "respond",
                                    ![a].invalidationFailed = fault,
                                    ![a].invalidated =
                                       IF fault THEN {}
                                       ELSE {env \in Environments :
                                               withKeyPrefix(cacheKeyOf(r.flag_key, env))
                                                 \notin DOMAIN next}]
  /\ UNCHANGED <<feature_flags, flag_configs, evals, background,
                 acked, deleteAcked, killAckedAt, mutCount, evalCount, evars, flag_variants, rvars, xvars>>

\* the success response of a mutation handler (res.json)
AdminRespond(a) ==
  /\ admins[a].pc = "respond"
  /\ LET r == admins[a]
     IN /\ admins' = [admins EXCEPT ![a].pc = "done", ![a].status = 200]
        /\ acked' = [env \in Environments |->
                       IF env \in r.committed /\ r.commitAt[env] > acked[env]
                       THEN r.commitAt[env] ELSE acked[env]]
        /\ deleteAcked' = (deleteAcked \/ r.op = "delete")
        /\ killAckedAt' = IF r.op = "kill"
                          THEN (IF r.enabledBefore THEN mutCount ELSE 0)
                          ELSE killAckedAt
  /\ UNCHANGED <<feature_flags, flag_configs, redis, evals, background,
                 mutCount, evalCount, evars, flag_variants, rvars, xvars>>

\* kill switch: the transaction of one of the toggles commits; when it was
\* the last one, Promise.all resolves
KillToggleCommit(a, env) ==
  /\ admins[a].pc = "kill_toggles"
  /\ admins[a].toggles[env] = "pending"
  /\ LET r   == admins[a]
         res == toggleFlag(r.flag_key, env, FALSE)
         tg  == [r.toggles EXCEPT ![env] = "committed"]
     IN /\ res.ok
        /\ flag_configs' = res.configs
        /\ admins' = [admins EXCEPT
             ![a].toggles = tg,
             ![a].committed = @ \cup {env},
             ![a].commitAt[env] = updatedAtOf(res.configs, r.flag_key, env),
             ![a].pc = IF \A x \in Environments : tg[x] = "committed"
                       THEN "invalidate_all" ELSE "kill_toggles"]
  /\ UNCHANGED <<feature_flags, redis, evals, background,
                 acked, deleteAcked, killAckedAt, mutCount, evalCount, evars, flag_variants, rvars, xvars>>

\* kill switch: one of the toggles throws (store fault, or config not found).
\* Promise.all rejects, the catch block answers 500 without invalidating;
\* the toggles still pending keep running.
KillToggleFail(a, env, fault) ==
  /\ admins[a].pc = "kill_toggles"
  /\ admins[a].toggles[env] = "pending"
  /\ fault \/ ~toggleFlag(admins[a].flag_key, env, FALSE).ok
  /\ LET r == admins[a]
     IN /\ admins' = [admins EXCEPT ![a].pc = "done", ![a].status = 500,
                                    ![a].storeFault = fault,
                                    ![a].toggles[env] = "failed"]
        /\ background' = background \cup
             {[req |-> r.req, flag_key |-> r.flag_key, environment |-> x] :
                x \in {y \in Environments \ {env} : r.toggles[y] = "pending"}}
  /\ UNCHANGED <<feature_flags, flag_configs, redis, evals,
                 acked, deleteAcked, killAckedAt, mutCount, evalCount, evars, flag_variants, rvars, xvars>>

\* a toggle of a failed kill switch commits after the 500 was sent
BackgroundToggleCommit(t) ==
  /\ t \in background
  /\ LET res == toggleFlag(t.flag_key, t.environment, FALSE)
     IN /\ res.ok
        /\ flag_configs' = res.configs
        /\ admins' = [a \in AdminProcs |->
             IF admins[a].req = t.req
             THEN [admins[a] EXCEPT !.toggles[t.environment] = "committed",
                                    !.committedLate = @ \cup {t.environment},
                                    !.commitAt[t.environment] =
                                       updatedAtOf(res.configs, t.flag_key, t.environment)]
             ELSE admins[a]]
  /\ background' = background \ {t}
  /\ UNCHANGED <<feature_flags, redis, evals,
                 acked, deleteAcked, killAckedAt, mutCount, evalCount, evars, flag_variants, rvars, xvars>>

\* a toggle of a failed kill switch throws after the 500 was sent
BackgroundToggleFail(t, fault) ==
  /\ t \in background
  /\ fault \/ ~toggleFlag(t.flag_key, t.environment, FALSE).ok
  /\ background' = background \ {t}
  /\ admins' = [a \in AdminProcs |->
       IF admins[a].req = t.req
       THEN [admins[a] EXCEPT !.toggles[t.environment] = "failed"]
       ELSE admins[a]]
  /\ UNCHANGED <<feature_flags, flag_configs, redis, evals,
                 acked, deleteAcked, killAckedAt, mutCount, evalCount, evars, flag_variants, rvars, xvars>>

\* DELETE handler: deleteFlag and, when it throws, the catch block
\* (404 when the message has "not found", else 500)
AdminStoreDelete(a, fault) ==
  /\ admins[a].pc = "store_delete"
  /\ LET r   == admins[a]
         res == deleteFlag(r.flag_key)
     IN IF fault
        THEN /\ admins' = [admins EXCEPT ![a].pc = "done", ![a].status = 500,
                                         ![a].storeFault = TRUE]
             /\ UNCHANGED feature_flags
        ELSE IF res.ok
        THEN /\ feature_flags' = res.flags
             /\ admins' = [admins EXCEPT ![a].pc = "invalidate_all"]
        ELSE /\ admins' = [admins EXCEPT ![a].pc = "done", ![a].status = 404]
             /\ UNCHANGED feature_flags
  /\ UNCHANGED <<flag_configs, redis, evals, background,
                 acked, deleteAcked, killAckedAt, mutCount, evalCount, evars, flag_variants, rvars, xvars>>

\* ------------------------------------------------------------------------
\* FlagRepository calls and their transactions (StoreSpec)
\* ------------------------------------------------------------------------
\* an empty set of tables: the transaction state of a repository that is not
\* inside a transaction
NoStore == [flags |-> <<>>, variants |-> <<>>, configs |-> <<>>]

\* the repository between calls
IdleRepo ==
  [pc |-> "idle", op |-> "none", flag_key |-> "", environment |-> "",
   request |-> <<>>, update |-> <<>>, todo |-> <<>>, work |-> NoStore,
   before |-> NoStore, result |-> ""]

IdleReader ==
  [pc |-> "idle", flag_key |-> "", environment |-> "", call |-> 0,
   txpc |-> "idle", snapshot |-> Null]

\* the keys of the create requests: the flag of the model and a new one
CreateFlagKeys == {"checkout", "beta"}

\* gen_random_uuid() of the rows createFlag inserts
FlagIds == [checkout |-> "flag-1", beta |-> "flag-2"]

VariantIds ==
  [true |-> "v-true", false |-> "v-false", control |-> "v-control",
   treatment |-> "v-treatment", on |-> "v-on"]

NewConfigIds ==
  [development |-> "config-dev-2", staging |-> "config-stg-2",
   production |-> "config-prod-2"]

\* the variants arrays of the create requests: a weight of 0, a weight left
\* out, an empty array
RequestVariants ==
  { <<>>,
    << [key |-> "control", value |-> "off", weight |-> 0],
       [key |-> "treatment", value |-> "on", weight |-> 100] >>,
    << [key |-> "on", value |-> "1"] >> }

\* well-formed bodies of POST /api/flags (CreateFlagRequest): key and name
\* present, the key matching /^[a-z0-9_]+$/
CreateRequests ==
  { [key |-> k, name |-> "Flag"] : k \in CreateFlagKeys } \cup
  { [key |-> k, name |-> "Flag", flag_type |-> "string", variants |-> v] :
      k \in CreateFlagKeys, v \in RequestVariants }

\* the rows SELECT id FROM environments returns, in the order of the loop
EnvOrder == <<"development", "staging", "production">>

\* rules arrays of the patches: well-formed rules, and a rule of priority 0
PatchRules ==
  { <<>>,
    << [rule_type |-> "attribute", attribute_name |-> "country",
        operator |-> "equals", attribute_value |-> <<"U","S">>,
        variant_key |-> "true", priority |-> 10],
       [rule_type |-> "percentage", percentage |-> 50, variant_key |-> "false",
        priority |-> 20] >>,
    << [rule_type |-> "user_id", attribute_value |-> <<"u","3","9">>,
        priority |-> 0] >> }

\* bodies of PUT /api/flags/:key/config/:environment (UpdateFlagConfigRequest)
StorePatches ==
  { [is_enabled |-> FALSE],
    [rollout_percentage |-> 50],
    [default_variant |-> "true", config_data |-> "{\"a\":1}"] } \cup
  { [rules |-> r] : r \in PatchRules } \cup
  { [is_enabled |-> FALSE, rollout_percentage |-> 50, rules |-> r] :
      r \in PatchRules }

\* the (flag, environment) pairs the calls name
StoreTargets == {<<"checkout", "production">>, <<"ghost", "production">>}

\* the rule rows a config holds from an earlier update
OldRules ==
  << [id |-> "rule-old-1", rule_type |-> "percentage", percentage |-> 10,
      variant_key |-> "true", priority |-> 1] >>

\* INSERT INTO feature_flags ... RETURNING *
newFlagRow(request) ==
  [id |-> FlagIds[request.key], key |-> request.key,
   flag_type |-> IF Has(request, "flag_type") THEN request.flag_type ELSE "boolean",
   is_active |-> TRUE, updated_at |-> Date(0)]

\* a unique index that only counts the flags that are active
keyTakenAmongActive(store, key) ==
  key \in DOMAIN store.flags /\ store.flags[key].is_active

\* feature_flags.key is UNIQUE: the INSERT raises 23505 when a row has the
\* key, whatever its is_active
keyTaken(store, key) == key \in DOMAIN store.flags

\* the row of INSERT INTO flag_variants for a variant of the request:
\* variant.weight || 50
newVariantRow(variant) ==
  [id |-> VariantIds[variant.key], key |-> variant.key, value |-> variant.value,
   weight |-> IF Has(variant, "weight") /\ variant.weight # 0
              THEN variant.weight ELSE 50]

\* the INSERT statements of the variants step, each with the rows it
\* inserts: one per supplied variant, or the one that inserts the defaults
variantInserts(request) ==
  IF Has(request, "variants") /\ Len(request.variants) > 0
  THEN [n \in 1..Len(request.variants) |-> <<newVariantRow(request.variants[n])>>]
  ELSE << BooleanVariants >>

\* INSERT INTO flag_configs (...) VALUES ($1, $2, false, 'false', 0)
newConfigRow(flagId, env) ==
  [id |-> NewConfigIds[env], flag_id |-> flagId, is_enabled |-> FALSE,
   default_variant |-> "false", rollout_percentage |-> 0,
   config_data |-> "{}", rules |-> <<>>, updated_at |-> Date(0)]

\* the status POST /api/flags answers for the outcome of createFlag
createStatus(result) ==
  IF result = "ok" THEN 201 ELSE IF result = "23505" THEN 409 ELSE 500

RepoFree == repo.pc \in {"idle", "done"} /\ mutCount < MaxStoreCalls

\* what no step of a repository call changes
CallFrame ==
  UNCHANGED <<evars, redis, evals, admins, background, acked, deleteAcked,
              killAckedAt, evalCount, xvars>>

\* client.query('BEGIN') of a call; the reads that ended before it are
\* forgotten
Begin(op, flagKey, environment, request, update, pc) ==
  /\ repo' = [IdleRepo EXCEPT !.pc = pc, !.op = op, !.flag_key = flagKey,
                              !.environment = environment, !.request = request,
                              !.update = update, !.work = committedStore,
                              !.before = committedStore]
  /\ mutCount' = mutCount + 1
  /\ reader' = IdleReader
  /\ CallFrame
  /\ UNCHANGED <<feature_flags, flag_configs, flag_variants>>

\* catch (error) { ROLLBACK; throw error }: the call ends with the error and
\* the rows the transaction wrote are dropped
Rollback(error) ==
  repo' = [repo EXCEPT !.pc = "done", !.result = error, !.work = NoStore,
                       !.todo = <<>>]

\* a statement inside a transaction leaves the committed rows alone
StoreFrame ==
  /\ CallFrame
  /\ UNCHANGED <<feature_flags, flag_configs, flag_variants, reader>>

\* POST /api/flags with a well-formed body: createFlag begins
CallCreateFlag(request) ==
  /\ RepoFree
  /\ Begin("create", request.key, "", request, <<>>, "insert_flag")

\* createFlag: INSERT INTO feature_flags
TxInsertFlag(fault) ==
  /\ repo.pc = "insert_flag"
  /\ IF fault THEN Rollback("fault")
     ELSE IF keyTaken(repo.work, repo.flag_key) THEN Rollback("23505")
     ELSE repo' = [repo EXCEPT
            !.pc = "insert_variants",
            !.todo = variantInserts(repo.request),
            !.work.flags = (repo.flag_key :> newFlagRow(repo.request)) @@ @,
            !.work.variants = (repo.flag_key :> <<>>) @@ @]
  /\ UNCHANGED mutCount
  /\ StoreFrame

\* createFlag: one INSERT INTO flag_variants; UNIQUE(flag_id, key)
TxInsertVariant(fault) ==
  /\ repo.pc = "insert_variants"
  /\ LET rows == Head(repo.todo)
         held == repo.work.variants[repo.flag_key]
     IN IF fault THEN Rollback("fault")
        ELSE IF \E i \in 1..Len(rows), j \in 1..Len(held) : rows[i].key = held[j].key
        THEN Rollback("23505")
        ELSE repo' = [repo EXCEPT
               !.pc = IF Tail(repo.todo) = <<>> THEN "insert_configs" ELSE @,
               !.todo = IF Tail(repo.todo) = <<>> THEN EnvOrder ELSE Tail(repo.todo),
               !.work.variants[repo.flag_key] = held \o rows]
  /\ UNCHANGED mutCount
  /\ StoreFrame

\* createFlag: one INSERT INTO flag_configs of the loop over the environments
TxInsertConfig(fault) ==
  /\ repo.pc = "insert_configs"
  /\ LET env == Head(repo.todo)
     IN IF fault THEN Rollback("fault")
        ELSE repo' = [repo EXCEPT
               !.pc = IF Tail(repo.todo) = <<>> THEN "commit" ELSE @,
               !.todo = Tail(repo.todo),
               !.work.configs =
                  (<<repo.flag_key, env>> :>
                     newConfigRow(repo.work.flags[repo.flag_key].id, env)) @@ @]
  /\ UNCHANGED mutCount
  /\ StoreFrame

\* PUT /api/flags/:key/config/:environment reaches updateFlagConfig
CallUpdateFlagConfig(flagKey, environment, update) ==
  /\ RepoFree
  /\ Begin("update", flagKey, environment, <<>>, update, "lookup")

\* toggleFlag: updateFlagConfig with the patch {is_enabled}
CallToggleFlag(flagKey, environment, enabled) ==
  /\ RepoFree
  /\ Begin("toggle", flagKey, environment, <<>>, [is_enabled |-> enabled], "lookup")

\* updateFlagConfig: the SELECT of the ids, the SET clauses built from the
\* patch, and the throw when there is none
TxLookup(fault) ==
  /\ repo.pc = "lookup"
  /\ IF fault THEN Rollback("fault")
     ELSE IF \/ repo.flag_key \notin DOMAIN repo.work.flags
             \/ <<repo.flag_key, repo.environment>> \notin DOMAIN repo.work.configs
     THEN Rollback("not found")
     ELSE IF DOMAIN repo.update \cap PatchFields = {}
     THEN Rollback("No fields to update")
     ELSE repo' = [repo EXCEPT !.pc = "update_row"]
  /\ UNCHANGED mutCount
  /\ StoreFrame

\* updateFlagConfig: UPDATE flag_configs SET ...
TxUpdateRow(fault) ==
  /\ repo.pc = "update_row"
  /\ IF fault THEN Rollback("fault")
     ELSE repo' = [repo EXCEPT
            !.pc = IF Has(repo.update, "rules") THEN "delete_rules" ELSE "commit",
            !.work.configs[<<repo.flag_key, repo.environment>>] =
               updateRow(@, repo.update)]
  /\ UNCHANGED mutCount
  /\ StoreFrame

\* updateFlagConfig: DELETE FROM rollout_rules WHERE flag_config_id = $1
TxDeleteRules(fault) ==
  /\ repo.pc = "delete_rules"
  /\ IF fault THEN Rollback("fault")
     ELSE repo' = [repo EXCEPT
            !.pc = IF repo.update.rules = <<>> THEN "commit" ELSE "insert_rules",
            !.todo = repo.update.rules,
            !.work.configs[<<repo.flag_key, repo.environment>>].rules = <<>>]
  /\ UNCHANGED mutCount
  /\ StoreFrame

\* updateFlagConfig: one INSERT INTO rollout_rules of the loop over the rules
TxInsertRule(fault) ==
  /\ repo.pc = "insert_rules"
  /\ IF fault THEN Rollback("fault")
     ELSE repo' = [repo EXCEPT
            !.pc = IF Tail(repo.todo) = <<>> THEN "commit" ELSE @,
            !.todo = Tail(repo.todo),
            !.work.configs[<<repo.flag_key, repo.environment>>].rules =
               Append(@, storedRule(Head(repo.todo), Len(@) + 1))]
  /\ UNCHANGED mutCount
  /\ StoreFrame

\* client.query('COMMIT'): the rows of the transaction become the store
TxCommit(fault) ==
  /\ repo.pc = "commit"
  /\ IF fault
     THEN /\ Rollback("fault")
          /\ UNCHANGED <<feature_flags, flag_variants, flag_configs>>
     ELSE /\ feature_flags' = repo.work.flags
          /\ flag_variants' = repo.work.variants
          /\ flag_configs' = repo.work.configs
          /\ repo' = [repo EXCEPT !.pc = "done", !.result = "ok", !.work = NoStore]
  /\ UNCHANGED <<mutCount, reader>>
  /\ CallFrame

\* deleteFlag: one UPDATE outside any transaction
CallDeleteFlag(flagKey, fault) ==
  /\ RepoFree
  /\ mutCount' = mutCount + 1
  /\ repo' = [IdleRepo EXCEPT
       !.pc = "done", !.op = "delete", !.flag_key = flagKey,
       !.before = committedStore,
       !.result = IF fault THEN "fault"
                  ELSE IF deleteFlag(flagKey).ok THEN "ok" ELSE "not found"]
  /\ feature_flags' = IF fault THEN feature_flags ELSE deleteFlag(flagKey).flags
  /\ reader' = IdleReader
  /\ CallFrame
  /\ UNCHANGED <<flag_configs, flag_variants>>

\* the orders in which json_agg(DISTINCT ...) can return n rows: it orders
\* them by their JSON text, which begins with the generated id
Orders(n) ==
  {p \in [1..n -> 1..n] : \A i, j \in 1..n : p[i] = p[j] => i = j}

inOrder(rows, p) == [i \in 1..Len(rows) |-> rows[p[i]]]

\* a reader: getFlagConfig, one SELECT, while a call may be in progress
ReaderGetFlagConfig(flagKey, environment) ==
  /\ LET found == getFlagConfig(flagKey, environment)
     IN \E snapshot \in
             IF found = Null THEN {Null}
             ELSE { [found EXCEPT !.rules = inOrder(@, p), !.variants = inOrder(@, q)] :
                      p \in Orders(Len(found.rules)),
                      q \in Orders(Len(found.variants)) } :
          reader' = [pc |-> "read", flag_key |-> flagKey,
                     environment |-> environment, call |-> mutCount,
                     txpc |-> repo.pc, snapshot |-> snapshot]
  /\ UNCHANGED <<evars, svars, repo, xvars>>

\* ------------------------------------------------------------------------
\* Specifications
\* ------------------------------------------------------------------------
\* ------------------------------------------------------------------------
\* Evaluation service: GET /sdk/config
\* ------------------------------------------------------------------------
\* the polling descriptor the endpoint builds; it names no flag
sdkConfigOf(environment, now) ==
  [environment |-> environment, poll_interval |-> "30000", version |-> "1.0.0",
   timestamp |-> now]

\* JSON.stringify(config): its characters up to the value of environment one
\* by one, the rest in pieces
stringifyConfig(config) ==
  <<"{", "\"", "e", "n", "v", "i", "r", "o", "n", "m", "e", "n", "t", "\"", ":", "\"",
    config.environment, "\",\"poll_interval\":", config.poll_interval,
    ",\"version\":\"", config.version, "\",\"timestamp\":\"", config.timestamp, "\"}">>

\* Buffer.from(text).toString('base64').slice(0, 8): eight base64 characters
\* encode the first six bytes of the text and nothing else, so the tag is
\* written as those six characters
configEtagOf(text) == SubSeq(text, 1, 6)

\* the handler: 304 when If-None-Match equals the tag, else 200 with the tag
\* and the descriptor; `ifNoneMatch` is <<>> when the header is not sent
conditionalResponse(config, configEtag, ifNoneMatch) ==
  IF ifNoneMatch = configEtag
  THEN [status |-> 304, etag |-> <<>>, body |-> Null]
  ELSE [status |-> 200, etag |-> configEtag, body |-> config]

\* req.query.environment || 'production', the descriptor and its tag
sdkConfigResponse(environment, ifNoneMatch, now) ==
  conditionalResponse(
    sdkConfigOf(IF environment = "" THEN "production" ELSE environment, now),
    configEtagOf(stringifyConfig(
      sdkConfigOf(IF environment = "" THEN "production" ELSE environment, now))),
    ifNoneMatch)

\* ------------------------------------------------------------------------
\* CanarySDK
\* ------------------------------------------------------------------------
\* String.prototype.charCodeAt for the characters of the model
charCodeAt(c) ==
  IF \E i \in 1..26 : LowerChars[i] = c
  THEN 96 + (CHOOSE i \in 1..26 : LowerChars[i] = c)
  ELSE IF \E i \in 1..26 : UpperChars[i] = c
  THEN 64 + (CHOOSE i \in 1..26 : UpperChars[i] = c)
  ELSE IF IsDigit(c) THEN 48 + DigitVal(c)
  ELSE CASE c = "{"  -> 123
         [] c = "}"  -> 125
         [] c = "\"" -> 34
         [] c = ":"  -> 58
         [] c = ","  -> 44

\* the characters of the attribute names of the model
NameChars ==
  [country |-> <<"c","o","u","n","t","r","y">>, age |-> <<"a","g","e">>]

\* JSON.stringify of an attribute value
stringifyValue(v) ==
  CASE v.t = "str"  -> <<"\"">> \o v.s \o <<"\"">>
    [] v.t = "num"  -> IntToStr(v.n)
    [] v.t = "bool" -> IF v.b THEN <<"t","r","u","e">> ELSE <<"f","a","l","s","e">>

\* JSON.stringify(attributes), the properties in the order `names`
RECURSIVE stringifyProperties(_, _)
stringifyProperties(attributes, names) ==
  IF names = <<>> THEN <<>>
  ELSE (<<"\"">> \o NameChars[Head(names)] \o <<"\"", ":">>
        \o stringifyValue(attributes[Head(names)])
        \o (IF Len(names) > 1 THEN <<",">> ELSE <<>>))
       \o stringifyProperties(attributes, Tail(names))

\* an object of the model has at most one property, so their order is the
\* only one
propertyNames(attributes) ==
  CHOOSE q \in [1..Cardinality(DOMAIN attributes) -> DOMAIN attributes] :
    \A i, j \in DOMAIN q : q[i] = q[j] => i = j

stringifyAttributes(attributes) ==
  <<"{">> \o stringifyProperties(attributes, propertyNames(attributes)) \o <<"}">>

\* hash = ((hash << 5) - hash) + char; hash = hash & hash: 31 * hash + char
\* in 32 bits, kept as two 16-bit halves
hashHalves(hi, lo) ==
  Word32((31 * hi + (lo \div 65536)) % 65536, lo % 65536)

hashStep(w, code) == hashHalves(w.hi, 31 * w.lo + code)

RECURSIVE hashFrom(_, _, _)
hashFrom(str, i, w) ==
  IF i > Len(str) THEN w ELSE hashFrom(str, i + 1, hashStep(w, charCodeAt(str[i])))

\* the 32 bits read as a signed integer
toInt32(w) ==
  IF w.hi >= 32768 THEN 0 - ((65535 - w.hi) * 65536 + (65536 - w.lo))
  ELSE w.hi * 65536 + w.lo

Digits36 == DigitChars \o LowerChars

\* Number.prototype.toString(36)
RECURSIVE toString36(_)
toString36(n) ==
  IF n < 0 THEN <<"-">> \o toString36(0 - n)
  ELSE IF n < 36 THEN <<Digits36[n + 1]>>
  ELSE Append(toString36(n \div 36), Digits36[(n % 36) + 1])

\* CanarySDK.hashAttributes
hashAttributes(attributes) ==
  toString36(toInt32(hashFrom(stringifyAttributes(attributes), 1, Word32(0, 0))))

redactedContextKeepingAttributes(userContext) ==
  [user_id    |-> IF Has(userContext, "user_id") THEN userContext.user_id ELSE <<>>,
   attributes |-> IF Has(userContext, "attributes") THEN userContext.attributes
                  ELSE EmptyObject]

\* the userContext recordAnalytics keeps: the user id and, in place of the
\* attributes (userContext.attributes || {}), their hash
redactedContext(userContext) ==
  [user_id    |-> IF Has(userContext, "user_id") THEN userContext.user_id ELSE <<>>,
   attributes |-> [hash |-> hashAttributes(
                     IF Has(userContext, "attributes") THEN userContext.attributes
                     ELSE EmptyObject)]]

\* `this.analytics.length > 1000` and `slice(-500)`
AnalyticsLimit == 1000

AnalyticsKeep == 500

SdkUsers ==
  { [user_id |-> U39, attributes |-> [country |-> Str(<<"U","S">>)]],
    [user_id |-> U3] }

\* no evaluateFlag call yet
NoCall ==
  [pc |-> "idle", flagKey |-> "", userContext |-> [user_id |-> U3],
   defaultValue |-> Bool(FALSE), result |-> Bool(FALSE),
   error |-> "none"]   \* history: what made the try block of the call throw

\* The instance when the constructor has returned: initialize() has run up
\* to `await this.fetchConfig()`, whose request (without If-None-Match) is
\* under way.
IdleSdk ==
  [environment      |-> "production",
   enable_analytics |-> TRUE,
   flagCache        |-> <<>>,    \* flag key -> cached configuration
   pollTimer        |-> FALSE,   \* the interval timer is set
   lastETag         |-> <<>>,    \* <<>>: null
   isInitialized    |-> FALSE,
   analytics        |-> <<>>,
   listeners        |-> {},      \* the events that have a listener
   initialize       |-> "fetching",  \* the promise of initialize(): fetching,
                                     \* resolved or rejected
   initFailed       |-> FALSE,   \* history: the first fetchConfig threw
   fetches          |-> { [id |-> 1, origin |-> "init", ifNoneMatch |-> <<>>] },
   fetchCount       |-> 1,       \* history: fetchConfig calls started
   refreshed        |-> "none",  \* the promise of the latest refresh()
   destroyed        |-> FALSE,   \* history: destroy() has returned
   events           |-> <<>>,    \* history: the emit calls, in order
   etagConfigs      |-> <<>>,    \* history: the configs on the server when
                                 \* lastETag was stored
   lastStatus       |-> 0,       \* history: status of the latest config response
   call             |-> NoCall,
   calls            |-> 0]       \* history: evaluateFlag calls started

\* EventEmitter.emit
emit(s, name, payload) ==
  [s EXCEPT !.events = Append(@, [name |-> name, payload |-> payload])]

\* emit('error') throws when the event has no listener
emitThrows(s, name) == name = "error" /\ "error" \notin s.listeners

\* startPolling: stopPolling, then setInterval
startPolling(s) == [s EXCEPT !.pollTimer = TRUE]

\* stopPolling: clearInterval
stopPolling(s) == [s EXCEPT !.pollTimer = FALSE]

\* how a request of the SDK can end: the service answers, something on the
\* way answers with an error status, or fetch rejects (the abort of
\* AbortSignal.timeout; a network error ends the same way)
FetchOutcomes == {"answered", "http_error", "timeout"}

Instants == {"t1", "t2"}

\* the response to fetchConfig's request; status 0: fetch rejected
configResponse(s, f, outcome, now) ==
  CASE outcome = "answered"   -> sdkConfigResponse(s.environment, f.ifNoneMatch, now)
    [] outcome = "http_error" -> [status |-> 500, etag |-> <<>>, body |-> Null]
    [] OTHER                  -> [status |-> 0, etag |-> <<>>, body |-> Null]

\* response.ok
responseOk(status) == status >= 200 /\ status <= 299

\* fetchConfig from the response on: [sdk, threw]
fetchConfigOn(seen, response) ==
  IF response.status = 0 THEN [sdk |-> seen, threw |-> TRUE]
  ELSE IF response.status = 304 THEN [sdk |-> seen, threw |-> FALSE]
  ELSE IF ~responseOk(response.status) THEN [sdk |-> seen, threw |-> TRUE]
  ELSE [sdk   |-> emit([seen EXCEPT !.lastETag = response.etag,
                                    !.etagConfigs = flag_configs],
                       "configUpdated", Null),
        threw |-> FALSE]

fetchConfigReturn(s, response) ==
  fetchConfigOn([s EXCEPT !.lastStatus = response.status], response)

\* what the actions of the SDK leave alone
SdkFrame ==
  UNCHANGED <<evars, svars, rvars, audit_log, batch>>

\* initialize() after `await this.fetchConfig()`
initializeAfter(r, error) ==
  IF ~r.threw
  THEN emit([startPolling(r.sdk) EXCEPT !.isInitialized = TRUE,
                                         !.initialize = "resolved"],
            "ready", Null)
  ELSE IF emitThrows(r.sdk, "error")
  THEN [emit(r.sdk, "error", error) EXCEPT !.initFailed = TRUE,
                                           !.initialize = "rejected"]
  ELSE [startPolling(emit(r.sdk, "error", error))
          EXCEPT !.initFailed = TRUE, !.initialize = "resolved"]

InitializeReturns(f, outcome, now) ==
  /\ f \in sdk.fetches
  /\ f.origin = "init"
  /\ sdk' = initializeAfter(
              fetchConfigReturn([sdk EXCEPT !.fetches = @ \ {f}],
                                configResponse(sdk, f, outcome, now)),
              outcome)
  /\ SdkFrame

\* the interval fires: the callback calls fetchConfig, which sends its request
PollTick ==
  /\ sdk.pollTimer
  /\ sdk.fetchCount < MaxFetches
  /\ sdk' = [sdk EXCEPT !.fetchCount = @ + 1,
                        !.fetches = @ \cup {[id |-> sdk.fetchCount + 1, origin |-> "poll",
                                             ifNoneMatch |-> sdk.lastETag]}]
  /\ SdkFrame

pollAfter(r, error) == IF r.threw THEN emit(r.sdk, "pollError", error) ELSE r.sdk

\* the callback after its fetchConfig: .catch emits pollError
PollReturns(f, outcome, now) ==
  /\ f \in sdk.fetches
  /\ f.origin = "poll"
  /\ sdk' = pollAfter(
              fetchConfigReturn([sdk EXCEPT !.fetches = @ \ {f}],
                                configResponse(sdk, f, outcome, now)),
              outcome)
  /\ SdkFrame

\* refresh(): fetchConfig sends its request
Refresh ==
  /\ ~sdk.destroyed
  /\ sdk.refreshed # "pending"
  /\ sdk.fetchCount < MaxFetches
  /\ sdk' = [sdk EXCEPT !.fetchCount = @ + 1, !.refreshed = "pending",
                        !.fetches = @ \cup {[id |-> sdk.fetchCount + 1, origin |-> "refresh",
                                             ifNoneMatch |-> sdk.lastETag]}]
  /\ SdkFrame

refreshAfter(r) ==
  [r.sdk EXCEPT !.refreshed = IF r.threw THEN "rejected" ELSE "resolved"]

\* refresh() after its fetchConfig: an error goes to the caller
RefreshReturns(f, outcome, now) ==
  /\ f \in sdk.fetches
  /\ f.origin = "refresh"
  /\ sdk' = refreshAfter(
              fetchConfigReturn([sdk EXCEPT !.fetches = @ \ {f}],
                                configResponse(sdk, f, outcome, now)))
  /\ SdkFrame

\* flushAnalytics
flushAnalytics(s) ==
  IF s.analytics = <<>> THEN s
  ELSE [emit(s, "analyticsFlush", s.analytics) EXCEPT !.analytics = <<>>]

\* destroy(): stopPolling, flushAnalytics, removeAllListeners, flagCache = {}
Destroy ==
  /\ ~sdk.destroyed
  /\ sdk' = [flushAnalytics(stopPolling(sdk)) EXCEPT !.listeners = {},
                                                      !.flagCache = <<>>,
                                                      !.destroyed = TRUE]
  /\ SdkFrame

\* a caller of the SDK calls flushAnalytics()
FlushAnalytics ==
  /\ sdk' = flushAnalytics(sdk)
  /\ SdkFrame

cutBufferOldest(analytics) ==
  IF Len(analytics) > AnalyticsLimit
  THEN SubSeq(analytics, 1, AnalyticsKeep)
  ELSE analytics

\* recordAnalytics: the record (its timestamp left out), the evaluation
\* event, and the cut of the buffer
cutBuffer(analytics) ==
  IF Len(analytics) > AnalyticsLimit
  THEN SubSeq(analytics, Len(analytics) - AnalyticsKeep + 1, Len(analytics))
  ELSE analytics

recordAnalytics(s, flagKey, result, userContext, cached) ==
  emit([s EXCEPT !.analytics =
          cutBuffer(Append(@, [flagKey |-> flagKey, result |-> result,
                               userContext |-> redactedContext(userContext)]))],
       "evaluation",
       [flagKey |-> flagKey, result |-> result, cached |-> cached,
        userContext |-> redactedContext(userContext).user_id])

\* `if (this.config.enable_analytics) this.recordAnalytics(...)`
recordIfEnabled(s, flagKey, result, userContext, cached) ==
  IF s.enable_analytics
  THEN recordAnalytics(s, flagKey, result, userContext, cached)
  ELSE s

\* parseVariantValue, for the flag types of the model (boolean and string)
parseVariantValue(value, flagType) ==
  IF flagType = "boolean" THEN Bool(value = "true") ELSE Str(value)

\* evaluateLocally on a cached configuration
\* cached.variants.find(v => v.key === key): its index, 0 when there is none
findVariant(variants, key) ==
  IF \E i \in 1..Len(variants) : variants[i].key = key
  THEN CHOOSE i \in 1..Len(variants) :
         /\ variants[i].key = key
         /\ \A j \in 1..(i - 1) : variants[j].key # key
  ELSE 0

\* the value evaluateLocally returns for the decision of the rule engine
localValue(cached, result, defaultValue) ==
  IF ~result.enabled THEN defaultValue
  ELSE IF cached.flag.flag_type = "boolean" THEN Bool(result.variant = "true")
  ELSE IF findVariant(cached.variants, result.variant) = 0 THEN defaultValue
  ELSE parseVariantValue(
         cached.variants[findVariant(cached.variants, result.variant)].value,
         cached.flag.flag_type)

evaluateLocally(cached, userContext, defaultValue, environment, rnd) ==
  localValue(cached,
             evaluateFlag([user_context |-> userContext,
                           flag_config  |-> cached.config,
                           rules        |-> cached.rules,
                           variants     |-> cached.variants,
                           environment  |-> environment], rnd),
             defaultValue)

\* getFallbackValue
getFallbackValue(flagKey, defaultValue) == defaultValue

\* the catch block of evaluateFlag: the event carries userContext itself
evaluateFlagFallback(s, c, error) ==
  emit(s, "evaluationError",
       [flagKey |-> c.flagKey, error |-> error,
        fallbackValue |-> getFallbackValue(c.flagKey, c.defaultValue),
        userContext |-> c.userContext])

callOf(flagKey, userContext, defaultValue) ==
  [NoCall EXCEPT !.flagKey = flagKey, !.userContext = userContext,
                 !.defaultValue = defaultValue]

\* evaluateFlag returns `result` from its try block, analytics recorded
returned(s, result, cached) ==
  [recordIfEnabled(s, s.call.flagKey, result, s.call.userContext, cached)
     EXCEPT !.call.pc = "done", !.call.result = result]

\* evaluateFlag up to its first await: the local evaluation when the flag is
\* in flagCache, else the request of evaluateRemotely
SdkEvaluateFlag(flagKey, userContext, defaultValue, rnd) ==
  /\ sdk.call.pc \in {"idle", "done"}
  /\ sdk.calls < MaxCalls
  /\ sdk' =
       IF flagKey \in DOMAIN sdk.flagCache
       THEN returned([sdk EXCEPT !.calls = @ + 1,
                                 !.call = callOf(flagKey, userContext, defaultValue)],
                     evaluateLocally(sdk.flagCache[flagKey], userContext,
                                     defaultValue, sdk.environment, rnd),
                     TRUE)
       ELSE [sdk EXCEPT !.calls = @ + 1,
                        !.call = [callOf(flagKey, userContext, defaultValue)
                                    EXCEPT !.pc = "remote"]]
  /\ SdkFrame

\* the value in the response of POST /evaluate
RemoteValues == {Bool(TRUE), Bool(FALSE)}

\* evaluateFlag after `await this.evaluateRemotely(...)`: the value of the
\* response, or the catch block when the request failed
EvaluateRemotelyReturns(outcome, value) ==
  /\ sdk.call.pc = "remote"
  /\ sdk' =
       IF outcome = "answered"
       THEN returned(sdk, value, FALSE)
       ELSE [evaluateFlagFallback(sdk, sdk.call, outcome)
               EXCEPT !.call.pc = "done", !.call.error = outcome,
                      !.call.result = getFallbackValue(sdk.call.flagKey,
                                                       sdk.call.defaultValue)]
  /\ SdkFrame

\* an operator changes the flag on the server (toggleFlag commits)
ServerToggle(flagKey, environment, enabled) ==
  /\ mutCount < MaxMutations
  /\ toggleFlag(flagKey, environment, enabled).ok
  /\ flag_configs' = toggleFlag(flagKey, environment, enabled).configs
  /\ mutCount' = mutCount + 1
  /\ UNCHANGED <<evars, feature_flags, redis, evals, admins, background, acked,
                 deleteAcked, killAckedAt, evalCount, flag_variants, rvars, xvars>>

RequestVarsInit ==
  /\ evals = [e \in EvalProcs |-> IdleEval]
  /\ admins = [a \in AdminProcs |-> IdleAdmin]
  /\ background = {}
  /\ acked = [env \in Environments |-> 0]
  /\ deleteAcked = FALSE
  /\ killAckedAt = 0
  /\ mutCount = 0
  /\ evalCount = 0
  /\ repo = IdleRepo
  /\ reader = IdleReader
  /\ audit_log = <<>>
  /\ batch = IdleBatch
  /\ sdk = IdleSdk

SystemVarsInit ==
  /\ feature_flags = [k \in FlagKeys |-> InitialFlagRow]
  /\ flag_variants = [k \in FlagKeys |-> BooleanVariants]
  /\ redis = <<>>
  /\ RequestVarsInit

\* the store after createFlag and config updates that enabled the flag at
\* full rollout in every environment; the cache empty
Init ==
  /\ SystemVarsInit
  /\ flag_configs = [x \in FlagKeys \X Environments |-> InitialConfigRow(x[2])]
  /\ ectx = CHOOSE c \in EngineContexts : TRUE
  /\ EngineVarsInit

Next ==
  \/ \E e \in EvalProcs, k \in EvalFlagKeys, env \in EvaluationEnvironments,
        d \in SystemDefaultValues, u \in SystemUsers : EvalReceive(e, k, env, d, u)
  \/ \E e \in EvalProcs, fault \in BOOLEAN : EvalCacheGet(e, fault)
  \/ \E e \in EvalProcs, fault \in BOOLEAN : EvalStoreGet(e, fault)
  \/ \E e \in EvalProcs, fault \in BOOLEAN : EvalCacheSet(e, fault)
  \/ \E e \in EvalProcs, rnd \in 0..(RandDenom - 1) : EvalRuleEngine(e, rnd)
  \/ \E k \in DOMAIN redis : CacheExpire(k)
  \/ \E a \in AdminProcs, k \in MutationFlagKeys, env \in RequestEnvironments,
        p \in UpdatePatches, h \in AdminHeaders : PutFlagConfig(a, k, env, p, h)
  \/ \E a \in AdminProcs, k \in MutationFlagKeys, env \in RequestEnvironments,
        en \in BOOLEAN, h \in AdminHeaders : PatchToggle(a, k, env, en, h)
  \/ \E a \in AdminProcs, k \in MutationFlagKeys, h \in AdminHeaders :
        PostKillSwitch(a, k, h)
  \/ \E a \in AdminProcs, k \in MutationFlagKeys, h \in AdminHeaders :
        DeleteFlagRequest(a, k, h)
  \/ \E a \in AdminProcs, fault \in BOOLEAN : AdminStoreUpdate(a, fault)
  \/ \E a \in AdminProcs, fault \in BOOLEAN : AdminInvalidate(a, fault)
  \/ \E a \in AdminProcs, fault \in BOOLEAN : AdminInvalidateAll(a, fault)
  \/ \E a \in AdminProcs : AdminRespond(a)
  \/ \E a \in AdminProcs, env \in Environments : KillToggleCommit(a, env)
  \/ \E a \in AdminProcs, env \in Environments, fault \in BOOLEAN :
        KillToggleFail(a, env, fault)
  \/ \E t \in background : BackgroundToggleCommit(t)
  \/ \E t \in background, fault \in BOOLEAN : BackgroundToggleFail(t, fault)
  \/ \E a \in AdminProcs, fault \in BOOLEAN : AdminStoreDelete(a, fault)

Spec == Init /\ [][Next]_vars

\* RuleEngine.evaluateFlag and the response built from it, on every input
\* of EngineContexts
EngineInit ==
  /\ ectx \in EngineContexts
  /\ EngineVarsInit
  /\ SystemVarsInit
  /\ flag_configs = [x \in FlagKeys \X Environments |-> InitialConfigRow(x[2])]

EngineNext == RunRuleEngine \/ RespondDecision

EngineSpec == EngineInit /\ [][EngineNext]_vars

\* POST /evaluate against the states the store and the cache can be in: the
\* flag active or soft-deleted, its configs enabled or not at rollout 0 or
\* 100, the cache empty or holding for production a snapshot (fresh or
\* stale) or a text that is not the JSON of a snapshot; requests also name
\* a flag that does not exist
EvalDefaultValues ==
  {Bool(TRUE), Bool(FALSE), Num(0), Str(<<>>), Str(<<"o", "f", "f">>)}

EvalCaches ==
  {<<>>} \cup
  { withKeyPrefix(cacheKeyOf("checkout", "production")) :> v :
      v \in {Unparseable, EmptyObject} \cup
            { jsonRoundTrip(snapshotOf(
                InitialFlagRow,
                [InitialConfigRow("production") EXCEPT !.is_enabled = en],
                BooleanVariants)) : en \in BOOLEAN } }

EvalInit ==
  /\ \E act \in BOOLEAN :
       feature_flags = [k \in FlagKeys |-> [InitialFlagRow EXCEPT !.is_active = act]]
  /\ \E en \in BOOLEAN, p \in {0, 100} :
       flag_configs = [x \in FlagKeys \X Environments |->
                         [InitialConfigRow(x[2]) EXCEPT !.is_enabled = en,
                                                        !.rollout_percentage = p]]
  /\ flag_variants = [k \in FlagKeys |-> BooleanVariants]
  /\ redis \in EvalCaches
  /\ RequestVarsInit
  /\ ectx = CHOOSE c \in EngineContexts : TRUE
  /\ EngineVarsInit

EvalNext ==
  \/ \E e \in EvalProcs, k \in EvalFlagKeys, env \in EvaluationEnvironments,
        d \in EvalDefaultValues, u \in SystemUsers : EvalReceive(e, k, env, d, u)
  \/ \E e \in EvalProcs, fault \in BOOLEAN : EvalCacheGet(e, fault)
  \/ \E e \in EvalProcs, fault \in BOOLEAN : EvalStoreGet(e, fault)
  \/ \E e \in EvalProcs, fault \in BOOLEAN : EvalCacheSet(e, fault)
  \/ \E e \in EvalProcs, rnd \in 0..(RandDenom - 1) : EvalRuleEngine(e, rnd)
  \/ \E e \in EvalProcs : EvalTimeout(e)
  \/ \E e \in EvalProcs : UnhandledRejection(e)
  \/ \E k \in DOMAIN redis : CacheExpire(k)

EvalSpec == EvalInit /\ [][EvalNext]_vars

\* the repository calls against the states the store can be in: the flag
\* active or soft-deleted, its production config with or without rules from
\* an earlier update
StoreInit ==
  /\ \E act \in BOOLEAN :
       feature_flags = [k \in FlagKeys |-> [InitialFlagRow EXCEPT !.is_active = act]]
  /\ \E r \in {<<>>, OldRules} :
       flag_configs = [x \in FlagKeys \X Environments |->
                         IF x[2] = "production"
                         THEN [InitialConfigRow(x[2]) EXCEPT !.rules = r]
                         ELSE InitialConfigRow(x[2])]
  /\ flag_variants = [k \in FlagKeys |-> BooleanVariants]
  /\ redis = <<>>
  /\ RequestVarsInit
  /\ ectx = CHOOSE c \in EngineContexts : TRUE
  /\ EngineVarsInit

StoreNext ==
  \/ \E request \in CreateRequests : CallCreateFlag(request)
  \/ \E fault \in BOOLEAN : TxInsertFlag(fault)
  \/ \E fault \in BOOLEAN : TxInsertVariant(fault)
  \/ \E fault \in BOOLEAN : TxInsertConfig(fault)
  \/ \E x \in StoreTargets, update \in StorePatches :
       CallUpdateFlagConfig(x[1], x[2], update)
  \/ \E x \in StoreTargets, enabled \in BOOLEAN : CallToggleFlag(x[1], x[2], enabled)
  \/ \E fault \in BOOLEAN : TxLookup(fault)
  \/ \E fault \in BOOLEAN : TxUpdateRow(fault)
  \/ \E fault \in BOOLEAN : TxDeleteRules(fault)
  \/ \E fault \in BOOLEAN : TxInsertRule(fault)
  \/ \E fault \in BOOLEAN : TxCommit(fault)
  \/ \E k \in {"checkout", "ghost"}, fault \in BOOLEAN : CallDeleteFlag(k, fault)
  \/ \E x \in StoreTargets : ReaderGetFlagConfig(x[1], x[2])

StoreSpec == StoreInit /\ [][StoreNext]_vars

\* The control plane behind its API-key gate: requests to the mutation routes
\* and to the two exempt paths, with every combination of the X-API-Key and
\* Authorization values of RequestHeaders; the cache empty or holding the
\* snapshot of production
GateCaches ==
  { <<>>,
    withKeyPrefix(cacheKeyOf("checkout", "production")) :>
      jsonRoundTrip(snapshotOf(InitialFlagRow, InitialConfigRow("production"),
                               BooleanVariants)) }

GateInit ==
  /\ feature_flags = [k \in FlagKeys |-> InitialFlagRow]
  /\ flag_variants = [k \in FlagKeys |-> BooleanVariants]
  /\ flag_configs = [x \in FlagKeys \X Environments |-> InitialConfigRow(x[2])]
  /\ redis \in GateCaches
  /\ RequestVarsInit
  /\ ectx = CHOOSE c \in EngineContexts : TRUE
  /\ EngineVarsInit

GateOps == {"update", "toggle", "kill", "delete"}

GateNext ==
  \/ \E a \in AdminProcs, k \in MutationFlagKeys, env \in RequestEnvironments,
        p \in UpdatePatches, h \in RequestHeaders : PutFlagConfig(a, k, env, p, h)
  \/ \E a \in AdminProcs, k \in MutationFlagKeys, env \in RequestEnvironments,
        en \in BOOLEAN, h \in RequestHeaders : PatchToggle(a, k, env, en, h)
  \/ \E a \in AdminProcs, k \in MutationFlagKeys, h \in RequestHeaders :
        PostKillSwitch(a, k, h)
  \/ \E a \in AdminProcs, k \in MutationFlagKeys, h \in RequestHeaders :
        DeleteFlagRequest(a, k, h)
  \/ \E a \in AdminProcs, op \in GateOps, k \in MutationFlagKeys,
        h \in RequestHeaders : AdminReject(a, op, k, h)
  \/ \E a \in AdminProcs, h \in RequestHeaders : GetHealth(a, h)
  \/ \E a \in AdminProcs, h \in RequestHeaders, fault \in BOOLEAN :
        GetTestDb(a, h, fault)
  \/ \E a \in AdminProcs, fault \in BOOLEAN : AdminStoreUpdate(a, fault)
  \/ \E a \in AdminProcs, fault \in BOOLEAN : AdminInvalidate(a, fault)
  \/ \E a \in AdminProcs, fault \in BOOLEAN : AdminInvalidateAll(a, fault)
  \/ \E a \in AdminProcs : AdminRespond(a)
  \/ \E a \in AdminProcs, env \in Environments : KillToggleCommit(a, env)
  \/ \E a \in AdminProcs, env \in Environments, fault \in BOOLEAN :
        KillToggleFail(a, env, fault)
  \/ \E t \in background : BackgroundToggleCommit(t)
  \/ \E t \in background, fault \in BOOLEAN : BackgroundToggleFail(t, fault)
  \/ \E a \in AdminProcs, fault \in BOOLEAN : AdminStoreDelete(a, fault)

GateSpec == GateInit /\ [][GateNext]_vars

\* POST /evaluate/batch with bodies whose `requests` is not an array, is an
\* array of up to MaxEvaluations elements (null, without flag_key, without
\* environment, naming a flag the store has or not), or is an array of
\* MaxBatchSize + 1 elements
BatchItems ==
  {NullItem} \cup
  { BatchItem(k, env, u) : k \in {"", "checkout", "ghost"},
                           env \in {"", "staging"},
                           u \in SystemUsers }

BatchBodies ==
  { [isArray |-> FALSE, requests |-> <<>>] } \cup
  { [isArray |-> TRUE, requests |-> r] : r \in SeqsUpTo(BatchItems, MaxEvaluations) } \cup
  { [isArray |-> TRUE,
     requests |-> [i \in 1..(MaxBatchSize + 1) |-> BatchItem(k, "", [user_id |-> U39])]] :
       k \in {"", "checkout"} }

BatchInit ==
  /\ feature_flags = [k \in FlagKeys |-> InitialFlagRow]
  /\ flag_variants = [k \in FlagKeys |-> BooleanVariants]
  /\ flag_configs = [x \in FlagKeys \X Environments |-> InitialConfigRow(x[2])]
  /\ redis \in GateCaches
  /\ RequestVarsInit
  /\ ectx = CHOOSE c \in EngineContexts : TRUE
  /\ EngineVarsInit

BatchNext ==
  \/ \E body \in BatchBodies : BatchReceive(body)
  \/ \E e \in DOMAIN evals, fault \in BOOLEAN : EvalCacheGet(e, fault)
  \/ \E e \in DOMAIN evals, fault \in BOOLEAN : EvalStoreGet(e, fault)
  \/ \E e \in DOMAIN evals, fault \in BOOLEAN : EvalCacheSet(e, fault)
  \/ \E e \in DOMAIN evals, rnd \in 0..(RandDenom - 1) : EvalRuleEngine(e, rnd)
  \/ BatchRespond

BatchSpec == BatchInit /\ [][BatchNext]_vars

\* One SDK instance of environment production against the evaluation
\* service, from the return of its constructor on: with or without
\* listeners, with or without analytics; requests answered, answered with an
\* error status, or rejected; the flag toggled on the server meanwhile
SdkListeners ==
  { {}, {"ready", "error", "configUpdated", "pollError", "evaluation",
         "evaluationError", "analyticsFlush"} }

SdkInit ==
  /\ feature_flags = [k \in FlagKeys |-> InitialFlagRow]
  /\ flag_variants = [k \in FlagKeys |-> BooleanVariants]
  /\ flag_configs = [x \in FlagKeys \X Environments |-> InitialConfigRow(x[2])]
  /\ redis = <<>>
  /\ evals = [e \in EvalProcs |-> IdleEval]
  /\ admins = [a \in AdminProcs |-> IdleAdmin]
  /\ background = {}
  /\ acked = [env \in Environments |-> 0]
  /\ deleteAcked = FALSE
  /\ killAckedAt = 0
  /\ mutCount = 0
  /\ evalCount = 0
  /\ repo = IdleRepo
  /\ reader = IdleReader
  /\ audit_log = <<>>
  /\ batch = IdleBatch
  /\ \E ls \in SdkListeners, analytics \in BOOLEAN :
       sdk = [IdleSdk EXCEPT !.listeners = ls, !.enable_analytics = analytics]
  /\ ectx = CHOOSE c \in EngineContexts : TRUE
  /\ EngineVarsInit

SdkNext ==
  \/ \E f \in sdk.fetches, outcome \in FetchOutcomes, now \in Instants :
        InitializeReturns(f, outcome, now)
  \/ PollTick
  \/ \E f \in sdk.fetches, outcome \in FetchOutcomes, now \in Instants :
        PollReturns(f, outcome, now)
  \/ Refresh
  \/ \E f \in sdk.fetches, outcome \in FetchOutcomes, now \in Instants :
        RefreshReturns(f, outcome, now)
  \/ Destroy
  \/ \E k \in FlagKeys, u \in SdkUsers, d \in SystemDefaultValues,
        rnd \in 0..(RandDenom - 1) : SdkEvaluateFlag(k, u, d, rnd)
  \/ \E outcome \in FetchOutcomes, v \in RemoteValues :
        EvaluateRemotelyReturns(outcome, v)
  \/ \E en \in BOOLEAN : ServerToggle("checkout", "production", en)

SdkSpec == SdkInit /\ [][SdkNext]_vars

\* RuleEngine.evaluateAttributeRule under every operator: one attribute rule,
\* alone or followed by a user_id rule, on users whose attributes and
\* custom_attributes hold the rule's name in neither, one or both maps
Operators ==
  {"equals", "not_equals", "in", "not_in", "contains", "starts_with", "ends_with",
   "greater_than", "less_than"}

AttributeNames == {"country", "plan", "constructor"}

AttributeRules ==
  { [id |-> "rule-attr", rule_type |-> "attribute", attribute_name |-> n,
     operator |-> op, attribute_value |-> v, variant_key |-> "true", priority |-> 1] :
       n \in AttributeNames, op \in Operators, v \in {<<"u","s">>, <<"7">>} }

NextRule ==
  [id |-> "rule-uid", rule_type |-> "user_id", attribute_value |-> <<"u","3","9">>,
   variant_key |-> "false", priority |-> 5]

AttributeUsers ==
  { [user_id |-> U39, attributes |-> [country |-> Str(<<"U","S">>)]],
    [user_id |-> U3, attributes |-> [country |-> Str(<<"D","E">>)],
     custom_attributes |-> [country |-> Str(<<"u","s">>)]],
    [user_id |-> U39, attributes |-> [plan |-> Num(7)],
     custom_attributes |-> [plan |-> Num(9)]],
    [user_id |-> U39, custom_attributes |-> [plan |-> Num(7)]],
    [user_id |-> U67] }

AttributeContexts ==
  { [flag_key |-> "checkout", flag_type |-> "boolean",
     flag_config |-> [is_enabled |-> TRUE, default_variant |-> "false",
                      rollout_percentage |-> 0, flag_id |-> "flag-1"],
     rules |-> rs, variants |-> BooleanVariants, user_context |-> u,
     environment |-> "production", default_value |-> Bool(FALSE)] :
      rs \in {<<r>> : r \in AttributeRules} \cup {<<r, NextRule>> : r \in AttributeRules},
      u \in AttributeUsers }

AttributeInit ==
  /\ ectx \in AttributeContexts
  /\ EngineVarsInit
  /\ SystemVarsInit
  /\ flag_configs = [x \in FlagKeys \X Environments |-> InitialConfigRow(x[2])]

AttributeSpec == AttributeInit /\ [][EngineNext]_vars

\* The analytics buffer of an SDK instance: evaluateFlag calls and
\* flushAnalytics on an instance that has recorded `n` evaluations since
\* its last flush, for the fills n around the limit of the buffer
earlierRecord(i) ==
  [flagKey |-> "checkout", result |-> Num(i),
   userContext |-> redactedContext(
                     [user_id |-> U39, attributes |-> [country |-> Str(<<"U","S">>)]])]

recorded(n) == [i \in 1..n |-> earlierRecord(i)]

AnalyticsFills == {0, AnalyticsKeep, AnalyticsLimit - 1, AnalyticsLimit}

AnalyticsInit ==
  /\ feature_flags = [k \in FlagKeys |-> InitialFlagRow]
  /\ flag_variants = [k \in FlagKeys |-> BooleanVariants]
  /\ flag_configs = [x \in FlagKeys \X Environments |-> InitialConfigRow(x[2])]
  /\ redis = <<>>
  /\ evals = [e \in EvalProcs |-> IdleEval]
  /\ admins = [a \in AdminProcs |-> IdleAdmin]
  /\ background = {}
  /\ acked = [env \in Environments |-> 0]
  /\ deleteAcked = FALSE
  /\ killAckedAt = 0
  /\ mutCount = 0
  /\ evalCount = 0
  /\ repo = IdleRepo
  /\ reader = IdleReader
  /\ audit_log = <<>>
  /\ batch = IdleBatch
  /\ ectx = CHOOSE c \in EngineContexts : TRUE
  /\ EngineVarsInit
  /\ \E ls \in SdkListeners, analytics \in BOOLEAN, n \in AnalyticsFills :
       sdk = [IdleSdk EXCEPT !.listeners = ls, !.enable_analytics = analytics,
                             !.analytics = recorded(n)]

AnalyticsNext ==
  \/ \E k \in FlagKeys, u \in SdkUsers, d \in SystemDefaultValues,
        rnd \in 0..(RandDenom - 1) : SdkEvaluateFlag(k, u, d, rnd)
  \/ \E outcome \in FetchOutcomes, v \in RemoteValues :
        EvaluateRemotelyReturns(outcome, v)
  \/ FlushAnalytics
  \/ Destroy

AnalyticsSpec == AnalyticsInit /\ [][AnalyticsNext]_vars

\* Cache invalidation by the mutation handlers, on two flags of which one
\* has a key that is a prefix of the other's, the cache holding snapshots
\* for any of their (flag, environment) pairs in production and staging
PrefixFlagKeys == {"check", "checkout"}

CachedEnvironments == {"production", "staging"}

cachedEntry(x) ==
  jsonRoundTrip(snapshotOf([InitialFlagRow EXCEPT !.key = x[1]],
                           InitialConfigRow(x[2]), BooleanVariants))

\* the (flag, environment) whose snapshot cacheFlagData stores under key k
cachedUnder(k) ==
  CHOOSE x \in PrefixFlagKeys \X CachedEnvironments :
    k = withKeyPrefix(cacheKeyOf(x[1], x[2]))

InvalidateCaches ==
  { [k \in {withKeyPrefix(cacheKeyOf(x[1], x[2])) : x \in held} |->
       cachedEntry(cachedUnder(k))] :
      held \in SUBSET (PrefixFlagKeys \X CachedEnvironments) }

InvalidateInit ==
  /\ feature_flags = [k \in PrefixFlagKeys |-> [InitialFlagRow EXCEPT !.key = k]]
  /\ flag_configs = [x \in PrefixFlagKeys \X Environments |-> InitialConfigRow(x[2])]
  /\ flag_variants = [k \in PrefixFlagKeys |-> BooleanVariants]
  /\ redis \in InvalidateCaches
  /\ RequestVarsInit
  /\ ectx = CHOOSE c \in EngineContexts : TRUE
  /\ EngineVarsInit

InvalidateNext ==
  \/ \E a \in AdminProcs, k \in PrefixFlagKeys, env \in CachedEnvironments,
        p \in UpdatePatches, h \in AdminHeaders : PutFlagConfig(a, k, env, p, h)
  \/ \E a \in AdminProcs, k \in PrefixFlagKeys, h \in AdminHeaders :
        DeleteFlagRequest(a, k, h)
  \/ \E a \in AdminProcs, fault \in BOOLEAN : AdminStoreUpdate(a, fault)
  \/ \E a \in AdminProcs, fault \in BOOLEAN : AdminInvalidate(a, fault)
  \/ \E a \in AdminProcs, fault \in BOOLEAN : AdminStoreDelete(a, fault)
  \/ \E a \in AdminProcs, fault \in BOOLEAN : AdminInvalidateAll(a, fault)
  \/ \E a \in AdminProcs : AdminRespond(a)

InvalidateSpec == InvalidateInit /\ [][InvalidateNext]_vars

\* ------------------------------------------------------------------------
\* Properties of the control plane and the evaluation service (Spec)
\* ------------------------------------------------------------------------

\* the evaluation of slot e has answered from a snapshot (cached or read)
AnsweredFromSnapshot(e) ==
  /\ evals[e].pc = "done"
  /\ evals[e].response.reason \notin {"flag_not_found", "evaluation_error",
                                      "invalid_context"}

\* C1: an evaluation that begins after the success response of a mutation of
\* its (flag, environment) is computed from store state at least as new as
\* that mutation: its snapshot is not older than the acknowledged commit,
\* and it uses no snapshot at all once a delete was acknowledged.
C1_FreshAfterAck ==
  \A e \in EvalProcs :
    AnsweredFromSnapshot(e) =>
      /\ ~evals[e].deletedAtStart
      /\ instantOf(evals[e].flagData.config.updated_at) >= evals[e].ackedAtStart

\* C2: a mutation whose cache-invalidation step failed does not answer 200.
C2_FailClosed ==
  \A a \in AdminProcs : admins[a].invalidationFailed => admins[a].status # 200

\* C3: after the kill switch of a flag that was enabled in every environment
\* has answered 200 (and no later mutation request has arrived), every
\* evaluation of the flag that begins afterwards and is answered by the rule
\* engine or from the store returns value false with reason flag_disabled.
C3_KillSwitchDisables ==
  \A e \in EvalProcs :
    ( /\ evals[e].pc = "done"
      /\ evals[e].killAtStart
      /\ evals[e].mutAtStart = mutCount
      /\ evals[e].response.reason # "evaluation_error" )
    => /\ evals[e].response.value = Bool(FALSE)
       /\ evals[e].response.reason = "flag_disabled"

\* C4: a completed kill switch has either answered 200 with the config of
\* every environment committed as disabled, or answered an error with no
\* config committed by it, before or after the response.
C4_KillSwitchAllOrNothing ==
  \A a \in AdminProcs :
    (admins[a].op = "kill" /\ admins[a].status # 0) =>
      \/ /\ admins[a].status = 200
         /\ admins[a].committed = Environments
         /\ \A env \in Environments :
              ~flag_configs[<<admins[a].flag_key, env>>].is_enabled
      \/ /\ admins[a].status # 200
         /\ admins[a].committed \cup admins[a].committedLate = {}

\* C5: when a handler has sent its response, whatever it is, the cache key of
\* every (flag, environment) it had committed was invalidated by it.
C5_InvalidatedBeforeResponse ==
  \A a \in AdminProcs :
    admins[a].status # 0 => admins[a].committed \subseteq admins[a].invalidated

\* ------------------------------------------------------------------------
\* Properties of the rule engine and of the response (EngineSpec)
\* ------------------------------------------------------------------------

\* positions, in the order the rules were given, of the rules that match
MatchingRules ==
  {i \in 1..Len(ectx.rules) :
     evaluateRule(ectx.rules[i], ectx.user_context, ectx.variants).matched}

\* the matching rule with the lowest priority value, the earliest on a tie
WinningRule ==
  ectx.rules[CHOOSE i \in MatchingRules :
               \A j \in MatchingRules :
                 \/ ectx.rules[i].priority < ectx.rules[j].priority
                 \/ ectx.rules[i].priority = ectx.rules[j].priority /\ i <= j]

MatchReason(rule) ==
  CASE rule.rule_type = "percentage" -> "percentage_match"
    [] rule.rule_type = "attribute"  -> "attribute_match"
    [] rule.rule_type = "user_id"    -> "user_id_match"

\* C6: disabled dominates.  On a config with is_enabled false the Decision is
\* {enabled false, default_variant, flag_disabled}, whatever the rules, the
\* variants, the rollout percentage and the user.
C6_DisabledDominates ==
  (epc # "ready" /\ ~ectx.flag_config.is_enabled) =>
     edecision = [enabled |-> FALSE,
                  variant |-> ectx.flag_config.default_variant,
                  reason  |-> "flag_disabled"]

C6_Witness ==
  /\ epc = "decided"
  /\ ~ectx.flag_config.is_enabled
  /\ ectx.flag_config.rollout_percentage = 100
  /\ MatchingRules # {}
  /\ edecision.reason = "flag_disabled"

\* C7: rule priority.  On an enabled config with a matching rule, the
\* Decision is that of the matching rule of lowest priority value (input
\* order on ties): enabled, its variant_key or else default_variant, its
\* match reason.
C7_RulePriority ==
  (epc # "ready" /\ ectx.flag_config.is_enabled /\ MatchingRules # {}) =>
     edecision = [enabled |-> TRUE,
                  variant |-> IF Has(WinningRule, "variant_key")
                              THEN WinningRule.variant_key
                              ELSE ectx.flag_config.default_variant,
                  reason  |-> MatchReason(WinningRule)]

C7_Witness ==
  /\ epc = "decided"
  /\ ectx.flag_config.is_enabled
  /\ Len(ectx.rules) = 2
  /\ MatchingRules = {1, 2}
  /\ ectx.rules[2].priority < ectx.rules[1].priority
  /\ edecision.reason = MatchReason(ectx.rules[2])

\* the context of the evaluation with another rollout percentage
WithRollout(p) == [ectx EXCEPT !.flag_config.rollout_percentage = p]

\* C8: rollout monotonicity.  With the config enabled and no rule matching,
\* a user enabled at percentage p is enabled at every p' with p <= p' <= 100.
C8_RolloutMonotone ==
  ( /\ epc # "ready"
    /\ ectx.flag_config.is_enabled
    /\ MatchingRules = {}
    /\ edecision.enabled )
  => \A p2 \in ectx.flag_config.rollout_percentage..100 :
       evaluateFlag(WithRollout(p2), ernd).enabled

C8_Witness ==
  /\ epc = "decided"
  /\ ectx.flag_config.is_enabled
  /\ MatchingRules = {}
  /\ ectx.flag_config.rollout_percentage \notin {0, 100}
  /\ edecision.enabled
  /\ ~evaluateFlag(WithRollout(ectx.flag_config.rollout_percentage - 1), ernd).enabled

\* the bucket of the user of the evaluation for the flag
RolloutBucket ==
  mod100(generateUserHash(userIdOrAnonymous(ectx.user_context),
                          ectx.flag_config.flag_id))

\* the keys a weighted variant choice can return
WeightedVariantKeys ==
  IF ectx.variants = <<>> THEN {"true"}
  ELSE {ectx.variants[i].key : i \in 1..Len(ectx.variants)}

\* C9: with the config enabled and no rule matching, the Decision follows the
\* config-level rollout with the reasons zero_rollout, full_rollout,
\* rollout_match and rollout_no_match.
C9_RolloutDecision ==
  (epc # "ready" /\ ectx.flag_config.is_enabled /\ MatchingRules = {}) =>
    LET p   == ectx.flag_config.rollout_percentage
        off(reason) == edecision = [enabled |-> FALSE,
                                    variant |-> ectx.flag_config.default_variant,
                                    reason  |-> reason]
        on(reason)  == /\ edecision.enabled
                       /\ edecision.variant \in WeightedVariantKeys
                       /\ edecision.reason = reason
    IN CASE p = 0             -> off("zero_rollout")
         [] p = 100           -> on("full_rollout")
         [] RolloutBucket < p -> on("rollout_match")
         [] OTHER             -> off("rollout_no_match")

\* the variant rows with the key of the Decision
ChosenVariants ==
  {i \in 1..Len(ectx.variants) : ectx.variants[i].key = edecision.variant}

\* C10: the value of the response is translated from the Decision by flag
\* type: boolean flags give (variant = "true") when enabled and the caller's
\* default_value when not; other flags give the chosen variant's value.
C10_ValueTranslation ==
  epc = "responded" =>
    IF ectx.flag_type = "boolean"
    THEN eresponse.value = IF edecision.enabled
                           THEN Bool(edecision.variant = "true")
                           ELSE ectx.default_value
    ELSE \A i \in ChosenVariants :
           eresponse.value = [t |-> "str", s |-> ectx.variants[i].value]

\* ------------------------------------------------------------------------
\* Properties of POST /evaluate under faults (EvalSpec)
\* ------------------------------------------------------------------------

\* C11: evaluation defaults.  An evaluation request during which a cache or
\* store call failed, or which met a cached text that is no snapshot, is
\* answered with a value equal to the default_value of the request.
C11_FaultGivesDefault ==
  \A e \in EvalProcs :
    (evals[e].pc = "done" /\ evals[e].status = 200 /\ evals[e].faulted)
      => evals[e].response.value = evals[e].default_value

AnsweredNotFound(e) ==
  /\ evals[e].response.reason = "flag_not_found"
  /\ evals[e].response.value = evals[e].default_value

\* C13: soft-deleted flags are invisible to evaluation.  An evaluation that
\* begins after DELETE /api/flags/:key answered 200, and meets no cache or
\* store fault, answers the default value with reason flag_not_found, in
\* every environment; so does an evaluation of a flag that never existed.
C13_DeletedInvisible ==
  \A e \in EvalProcs :
    (evals[e].pc = "done" /\ ~evals[e].faulted) =>
      /\ (evals[e].flag_key \in DOMAIN feature_flags /\ evals[e].deletedAtStart)
            => AnsweredNotFound(e)
      /\ evals[e].flag_key \notin DOMAIN feature_flags => AnsweredNotFound(e)

\* C19: a config update, toggle, kill switch or delete addressed to a flag
\* the store does not have (the environment, where there is one, being one
\* of the three) answers 404 and commits nothing, when no store call fails
\* for another reason.
C19_MissingTargetIs404 ==
  \A a \in AdminProcs :
    ( /\ admins[a].pc = "done"
      /\ admins[a].op # "none"
      /\ ~admins[a].targetExisted
      /\ ~admins[a].storeFault
      /\ admins[a].op \in {"update", "toggle"} => admins[a].environment \in Environments )
    => /\ admins[a].status = 404
       /\ admins[a].committed \cup admins[a].committedLate = {}

\* C20: a config update or toggle that names an environment other than
\* development, staging and production answers 400 and commits nothing,
\* when no store call fails for another reason.
C20_UnknownEnvironmentIs400 ==
  \A a \in AdminProcs :
    ( /\ admins[a].pc = "done"
      /\ admins[a].op \in {"update", "toggle"}
      /\ admins[a].environment \notin Environments
      /\ ~admins[a].storeFault )
    => /\ admins[a].status = 400
       /\ admins[a].committed \cup admins[a].committedLate = {}

\* ------------------------------------------------------------------------
\* Repository transactions (StoreSpec)
\* ------------------------------------------------------------------------

\* a repository call of kind op has ended
Ended(op) == repo.pc = "done" /\ repo.op = op

\* what a variant of a create request asks the store to hold; a weight left
\* out is the column default
suppliedVariant(variant) ==
  [key |-> variant.key, value |-> variant.value,
   weight |-> IF Has(variant, "weight") THEN variant.weight ELSE 50]

\* the variants a create request asks for
expectedVariants(request) ==
  IF Has(request, "variants") /\ Len(request.variants) > 0
  THEN {suppliedVariant(request.variants[n]) : n \in 1..Len(request.variants)}
  ELSE {[key |-> "true", value |-> "true", weight |-> 50],
        [key |-> "false", value |-> "false", weight |-> 50]}

\* the variant rows the store holds for a flag, without their ids
heldVariants(flagKey) ==
  { [key |-> flag_variants[flagKey][n].key, value |-> flag_variants[flagKey][n].value,
     weight |-> flag_variants[flagKey][n].weight] :
      n \in 1..Len(flag_variants[flagKey]) }

\* C14: in every store state each flag has exactly one config per known
\* environment; a createFlag that succeeded added the flag with one config
\* per environment set to {is_enabled false, default_variant "false",
\* rollout_percentage 0} and with the supplied variants, or the variants true
\* and false at weight 50 when none were supplied; a createFlag that failed
\* left the flags, variants and configs as they were.
C14_CreateMaterialises ==
  /\ DOMAIN flag_configs = (DOMAIN feature_flags) \X Environments
  /\ (Ended("create") /\ repo.result = "ok") =>
       /\ repo.flag_key \in DOMAIN feature_flags
       /\ \A env \in Environments :
            LET fc == flag_configs[<<repo.flag_key, env>>]
            IN /\ ~fc.is_enabled
               /\ fc.default_variant = "false"
               /\ fc.rollout_percentage = 0
       /\ heldVariants(repo.flag_key) = expectedVariants(repo.request)
  /\ (Ended("create") /\ repo.result # "ok") => committedStore = repo.before

\* C15: POST /api/flags with a key the store already has, on an active or a
\* soft-deleted flag, answers 409 and leaves flags, variants and configs
\* unchanged (no statement failing for another reason).
C15_DuplicateKeyConflict ==
  ( /\ Ended("create")
    /\ repo.flag_key \in DOMAIN repo.before.flags
    /\ repo.result # "fault" )
  => /\ createStatus(repo.result) = 409
     /\ committedStore = repo.before

\* a create that named the key of a soft-deleted flag was refused
C15_Witness ==
  /\ Ended("create")
  /\ repo.flag_key \in DOMAIN repo.before.flags
  /\ ~repo.before.flags[repo.flag_key].is_active
  /\ createStatus(repo.result) = 409

\* a rule row as the patch gave it: the row without its generated id
withoutId(row) == [f \in DOMAIN row \ {"id"} |-> row[f]]

\* C16: updateFlagConfig with a patch that has a rules field, with or
\* without other fields, on an existing (active flag, environment) succeeds, and
\* afterwards the rules of the config are exactly the rules of the patch
\* (no statement failing for another reason).
C16_RulesReplaced ==
  ( /\ Ended("update")
    /\ Has(repo.update, "rules")
    /\ <<repo.flag_key, repo.environment>> \in DOMAIN repo.before.configs
    /\ repo.before.flags[repo.flag_key].is_active
    /\ repo.result # "fault" )
  => /\ repo.result = "ok"
     /\ LET held == flag_configs[<<repo.flag_key, repo.environment>>].rules
        IN [n \in 1..Len(held) |-> withoutId(held[n])] = repo.update.rules

\* C17: updateFlagConfig and toggleFlag change only what the patch names:
\* the fields of the config that the patch leaves out keep their value
\* (updated_at, the time of the change, aside), the rules are unchanged when
\* the patch has no rules field, and the configs of other environments, the
\* other flags and all variants are unchanged; a call that failed changed
\* nothing.
C17_UpdateFrame ==
  (repo.pc = "done" /\ repo.op \in {"update", "toggle"}) =>
    IF repo.result # "ok" THEN committedStore = repo.before
    ELSE LET target == <<repo.flag_key, repo.environment>>
             old == repo.before.configs[target]
             new == flag_configs[target]
         IN /\ feature_flags = repo.before.flags
            /\ flag_variants = repo.before.variants
            /\ DOMAIN flag_configs = DOMAIN repo.before.configs
            /\ \A x \in DOMAIN flag_configs \ {target} :
                 flag_configs[x] = repo.before.configs[x]
            /\ \A f \in DOMAIN old \ (DOMAIN repo.update \cup {"updated_at"}) :
                 new[f] = old[f]

\* a patch of rollout_percentage alone was committed on a config that was
\* enabled and had rules, in a store that has a second flag
C17_Witness ==
  /\ Ended("update")
  /\ repo.result = "ok"
  /\ DOMAIN repo.update = {"rollout_percentage"}
  /\ repo.before.configs[<<repo.flag_key, repo.environment>>].is_enabled
  /\ repo.before.configs[<<repo.flag_key, repo.environment>>].rules # <<>>
  /\ flag_configs[<<repo.flag_key, repo.environment>>].rollout_percentage = 50
  /\ "beta" \in DOMAIN feature_flags

\* a snapshot without the order of its rules and variants
unordered(snapshot) ==
  IF snapshot = Null THEN Null
  ELSE [snapshot EXCEPT !.rules = {@[n] : n \in 1..Len(@)},
                        !.variants = {@[n] : n \in 1..Len(@)}]

\* C18: a getFlagConfig that runs while updateFlagConfig with a rules field
\* is in progress on the same (flag, environment) returns the complete state
\* of before the update or the complete state of after it: never the new
\* fields with the old rules, no rules between the DELETE and the INSERTs,
\* nor old and new rules together.
C18_ReadersSeeWholeStates ==
  ( /\ reader.pc = "read"
    /\ reader.call = mutCount
    /\ repo.op = "update"
    /\ Has(repo.update, "rules")
    /\ reader.flag_key = repo.flag_key
    /\ reader.environment = repo.environment )
  => unordered(reader.snapshot) \in
       { unordered(getFlagConfigIn(repo.before, repo.flag_key, repo.environment)),
         unordered(getFlagConfigIn(committedStore, repo.flag_key, repo.environment)) }

\* a reader ran between the INSERTs of an update that replaced the rules of
\* the config and changed its fields, and the update has committed
C18_Witness ==
  /\ reader.pc = "read"
  /\ reader.call = mutCount
  /\ reader.txpc = "insert_rules"
  /\ reader.flag_key = repo.flag_key
  /\ reader.environment = repo.environment
  /\ Ended("update")
  /\ repo.result = "ok"
  /\ Has(repo.update, "is_enabled")
  /\ repo.before.configs[<<repo.flag_key, repo.environment>>].rules # <<>>
  /\ reader.snapshot # Null
  /\ Len(reader.snapshot.rules) = 1

\* ------------------------------------------------------------------------
\* Flag-wide invalidation (Spec) and the engine's inputs (EngineSpec)
\* ------------------------------------------------------------------------

\* C23: invalidateCache(flagKey) without an environment removes every cache
\* entry of the flag: when it has returned without a cache error, no key
\* under which cacheFlagData stored a snapshot of (flagKey, env) is left,
\* for any environment.
C23_InvalidateAllRemovesAll ==
  \A a \in AdminProcs :
    ( /\ admins[a].pc = "respond"
      /\ admins[a].op \in {"kill", "delete"}
      /\ ~admins[a].invalidationFailed )
    => admins[a].invalidated = Environments

\* C30: RuleEngine.evaluateFlag leaves the snapshot it is given as it was:
\* after the call the rules array has the same elements in the same order.
C30_EvaluationLeavesSnapshot ==
  epc # "ready" => erules = ectx.rules

\* the credential a request presents: the X-API-Key header, else what follows
\* the Bearer scheme of the Authorization header, else none
presentedCredential(headers) ==
  IF headers.x_api_key.present THEN headers.x_api_key
  ELSE IF /\ headers.authorization.present
          /\ headers.authorization.value # <<>>
          /\ Head(headers.authorization.value) = "Bearer "
       THEN HeaderValue(Tail(headers.authorization.value))
       ELSE Undefined

badCredential(headers) ==
  LET c == presentedCredential(headers)
  IN ~c.present \/ c.value # validApiKey

\* C21: a control-plane request whose path is not /health or /test-db and
\* whose credential (X-API-Key, or Authorization: Bearer) is absent or
\* differs from the configured secret is answered 401, and the step that
\* receives it changes neither the store nor the cache.
C21_AuthGate ==
  [][\A a \in AdminProcs :
       ( /\ admins'[a] # admins[a]
         /\ admins[a].pc \in {"idle", "done"}
         /\ pathOf(admins'[a].op) \notin ExemptPaths
         /\ badCredential(admins'[a].headers) )
       => /\ admins'[a].status = 401
          /\ admins'[a].pc = "done"
          /\ UNCHANGED <<feature_flags, flag_configs, flag_variants, redis>>]_vars

\* the audit actions the table accepts, by repository call
auditAction(op) ==
  CASE op = "create" -> "created"
    [] op = "update" -> "updated"
    [] op = "toggle" -> "toggled"
    [] op = "delete" -> "deleted"

\* C24: every repository mutation that succeeded (createFlag,
\* updateFlagConfig, toggleFlag, deleteFlag) has added an audit entry that
\* names its action by the time the call has returned, so the audit entries
\* are never fewer than the mutations committed.
C24_MutationsAudited ==
  (repo.pc = "done" /\ repo.result = "ok") =>
    /\ Len(audit_log) >= 1
    /\ \E i \in 1..Len(audit_log) :
         /\ audit_log[i].action = auditAction(repo.op)
         /\ audit_log[i].entity_type \in {"flag", "flag_config"}

\* an element that has no flag_key
lacksFlagKey(request) == request.null \/ request.flag_key = ""

\* C22: a POST /evaluate/batch whose requests array has more than 50
\* elements, or has an element without flag_key, is answered 400 by the step
\* that receives it, and that step starts no evaluation: it reads neither
\* store nor cache, fills no cache entry and leaves every evaluation (and so
\* the evaluation metric, recorded at the end of evaluateFlag) as it was.
C22_BatchValidatedUpFront ==
  [][( /\ batch' # batch
       /\ batch.pc \in {"idle", "done"}
       /\ batch'.body.isArray
       /\ \/ Len(batch'.body.requests) > MaxBatchSize
          \/ \E i \in 1..Len(batch'.body.requests) :
               lacksFlagKey(batch'.body.requests[i]) )
     => /\ batch'.status = 400
        /\ batch'.pc = "done"
        /\ UNCHANGED <<evals, redis>>]_vars

\* the positions of the emit calls of an event
emitsOf(name) == {i \in 1..Len(sdk.events) : sdk.events[i].name = name}

\* C25: when the first config fetch of the SDK has failed (and destroy() has
\* not been called), error has been emitted and the poll timer is active,
\* whether or not an error listener is registered; ready has been emitted
\* only if the first fetch succeeded.
C25_FailedInitStillPolls ==
  /\ (sdk.initFailed /\ ~sdk.destroyed) =>
       (emitsOf("error") # {} /\ sdk.pollTimer)
  /\ emitsOf("ready") # {} => (sdk.initialize = "resolved" /\ ~sdk.initFailed)

\* a config request of the SDK is answered in this step
ConfigAnswered ==
  /\ sdk.fetches # sdk'.fetches
  /\ sdk'.fetches \subseteq sdk.fetches

\* the events emitted in this step
newEvents == SubSeq(sdk'.events, Len(sdk.events) + 1, Len(sdk'.events))

\* the flags a snapshot of the server holds
serverFlags == {k \in DOMAIN feature_flags : feature_flags[k].is_active}

\* C26: a config request answered 304 leaves the local snapshot and the
\* stored ETag as they were and emits nothing; one answered 200 replaces the
\* local snapshot by the flag configurations of the server, stores the ETag
\* of the response and emits configUpdated.
C26_PollOutcomes ==
  [][ConfigAnswered =>
        /\ sdk'.lastStatus = 304 =>
             /\ sdk'.flagCache = sdk.flagCache
             /\ sdk'.lastETag = sdk.lastETag
             /\ newEvents = <<>>
        /\ sdk'.lastStatus = 200 =>
             /\ DOMAIN sdk'.flagCache = serverFlags
             /\ \E now \in Instants :
                  sdk'.lastETag =
                    configEtagOf(stringifyConfig(sdkConfigOf(sdk.environment, now)))
             /\ newEvents # <<>>
             /\ newEvents[1].name = "configUpdated"]_vars

\* the flag is enabled on the server otherwise than when the ETag was stored
changedSinceETag ==
  \E k \in FlagKeys :
    sdk.etagConfigs[<<k, sdk.environment>>].is_enabled
      # flag_configs[<<k, sdk.environment>>].is_enabled

\* C27: when the flag configuration of the SDK's environment has changed on
\* the server since the SDK stored its ETag, a config request that carries
\* that ETag and is answered by the server is answered 200 with another ETag,
\* not 304 (so that configUpdated is emitted).
C27_ChangeSeenByNextPoll ==
  [][( /\ ConfigAnswered
       /\ sdk'.lastStatus \in {200, 304}
       /\ sdk.lastETag # <<>>
       /\ \A f \in sdk.fetches \ sdk'.fetches : f.ifNoneMatch = sdk.lastETag
       /\ changedSinceETag )
     => /\ sdk'.lastStatus = 200
        /\ sdk'.lastETag # sdk.lastETag
        /\ emitsOf("configUpdated") # {}]_vars

\* C28: once destroy() has returned no poll timer is active and no config
\* fetch is started any more, whether destroy() came before the initial
\* fetch completed, after it succeeded or after it failed.
C28_DestroyCancelsPolling ==
  [][sdk'.destroyed =>
       /\ ~sdk'.pollTimer
       /\ sdk.destroyed => sdk'.fetchCount = sdk.fetchCount]_vars

\* the context an event may carry: the user id, and the hash in place of the
\* attributes
carriesNoRawAttributes(context, userContext) ==
  /\ context.user_id = userContext.user_id
  /\ Has(userContext, "attributes") =>
       /\ Has(context, "attributes")
       /\ context.attributes = redactedContext(userContext).attributes

\* C29: an evaluateFlag call of the SDK whose evaluation failed (request
\* timed out or rejected, or answered with an error status) has returned the
\* caller's default and has emitted one evaluationError event that carries
\* the flag key, the cause, the default and the user context without its raw
\* attributes.
C29_EvaluateFallsBack ==
  (sdk.call.pc = "done" /\ sdk.call.error # "none") =>
    /\ sdk.call.result = sdk.call.defaultValue
    /\ Cardinality(emitsOf("evaluationError")) = 1
    /\ \A i \in emitsOf("evaluationError") :
         /\ sdk.events[i].payload.flagKey = sdk.call.flagKey
         /\ sdk.events[i].payload.error = sdk.call.error
         /\ sdk.events[i].payload.fallbackValue = sdk.call.defaultValue
         /\ carriesNoRawAttributes(sdk.events[i].payload.userContext,
                                   sdk.call.userContext)

\* the rule names an attribute that neither attributes nor custom_attributes holds
absentAttribute(rule, userContext) ==
  rule.attribute_name \notin DOMAIN mergedAttributes(userContext)

\* the rule names an attribute that both maps hold
collidingAttribute(rule, userContext) ==
  /\ Has(userContext, "attributes") /\ Has(userContext, "custom_attributes")
  /\ rule.attribute_name \in DOMAIN userContext.attributes
  /\ rule.attribute_name \in DOMAIN userContext.custom_attributes

isAttributeRule(rule) == rule.rule_type = "attribute"

rulesWithAttribute(rules, userContext) ==
  SelectSeq(rules, LAMBDA r : ~(isAttributeRule(r) /\ absentAttribute(r, userContext)))

\* C34: an attribute rule whose attribute is in neither attributes nor
\* custom_attributes does not match under any operator, its reason is
\* attribute_not_found and the decision is the one of the remaining rules;
\* an attribute in both maps is compared by its custom_attributes value.
C34_AbsentAttributeNeverMatches ==
  epc # "ready" =>
    /\ \A i \in 1..Len(ectx.rules) :
         isAttributeRule(ectx.rules[i]) =>
           /\ absentAttribute(ectx.rules[i], ectx.user_context) =>
                evaluateAttributeRule(ectx.rules[i], ectx.user_context)
                  = [matched |-> FALSE, reason |-> "attribute_not_found"]
           /\ collidingAttribute(ectx.rules[i], ectx.user_context) =>
                evaluateAttributeRule(ectx.rules[i], ectx.user_context).matched
                  = evaluateAttributeCondition(
                      ectx.user_context.custom_attributes[ectx.rules[i].attribute_name],
                      ectx.rules[i].operator, ectx.rules[i].attribute_value)
    /\ edecision = evaluateFlag([ectx EXCEPT !.rules =
                                   rulesWithAttribute(ectx.rules, ectx.user_context)],
                                ernd)

\* index of the first variant whose cumulative weight is strictly above the
\* draw rnd / RandDenom * totalWeight (0: none)
RECURSIVE firstExceeding(_, _, _, _)
firstExceeding(variants, i, rnd, totalWeight) ==
  IF i > Len(variants) THEN 0
  ELSE IF sumWeights(variants, i) * RandDenom > rnd * totalWeight THEN i
  ELSE firstExceeding(variants, i + 1, rnd, totalWeight)

\* C35: when the weighted walk draws, the variant it returns is one of the
\* flag's variants, has a weight other than 0, and is the first one in store
\* order whose cumulative weight strictly exceeds the draw.
C35_WeightedSelection ==
  (epc # "ready" /\ drawsRandom(ectx)) =>
    /\ selectVariantByWeight(ectx.variants, ernd) \in Range(ectx.variants)
    /\ selectVariantByWeight(ectx.variants, ernd).weight # 0
    /\ firstExceeding(ectx.variants, 1, ernd,
                      sumWeights(ectx.variants, Len(ectx.variants))) # 0
    /\ selectVariantByWeight(ectx.variants, ernd)
         = ectx.variants[firstExceeding(ectx.variants, 1, ernd,
                                        sumWeights(ectx.variants, Len(ectx.variants)))]
    /\ edecision.variant = selectVariantByWeight(ectx.variants, ernd).key

\* the step records an evaluation: recordAnalytics has emitted its event
recordsEvaluation ==
  /\ Len(sdk'.events) = Len(sdk.events) + 1
  /\ sdk'.events[Len(sdk'.events)].name = "evaluation"

Digits36Set == {Digits36[i] : i \in 1..Len(Digits36)} \cup {"-"}

\* an analytics record that holds of the user context the user id and a
\* hash token and nothing else
redacted(record) ==
  /\ DOMAIN record = {"flagKey", "result", "userContext"}
  /\ DOMAIN record.userContext = {"user_id", "attributes"}
  /\ DOMAIN record.userContext.attributes = {"hash"}
  /\ record.userContext.attributes.hash # <<>>
  /\ Range(record.userContext.attributes.hash) \subseteq Digits36Set

\* the step is a flushAnalytics() call, direct or from destroy()
flushes == FlushAnalytics \/ Destroy

C38_AnsweredOnce ==
  [][\A e \in DOMAIN evals :
       /\ (evals[e].status # 0 /\ evals'[e].pc # "cache_get") =>
            evals'[e].status = evals[e].status
       /\ evals'[e].pc = "done" => evals'[e].status # 0
       /\ ~evals'[e].exited]_vars

\* what evaluateFlag answers to request r from the snapshot flagData
answerFrom(r, flagData, rnd) ==
  IF ~validateContext(flagData, r.user_context, r.environment)
  THEN createEvaluationResponse(r.flag_key, r.default_value, "default",
                                "invalid_context")
  ELSE createEvaluationResponse(
         r.flag_key,
         Bool(evaluateFlag([user_context |-> r.user_context,
                            flag_config  |-> flagData.config,
                            rules        |-> flagData.rules,
                            variants     |-> flagData.variants,
                            environment  |-> r.environment], rnd).enabled),
         evaluateFlag([user_context |-> r.user_context,
                       flag_config  |-> flagData.config,
                       rules        |-> flagData.rules,
                       variants     |-> flagData.variants,
                       environment  |-> r.environment], rnd).variant,
         evaluateFlag([user_context |-> r.user_context,
                       flag_config  |-> flagData.config,
                       rules        |-> flagData.rules,
                       variants     |-> flagData.variants,
                       environment  |-> r.environment], rnd).reason)

\* what request r is answered when its cache read and write succeed: from
\* the cached snapshot if there is one, else from what the store returned
withWorkingCache(r, rnd) ==
  IF r.cacheHeld # Null THEN answerFrom(r, r.cacheHeld, rnd)
  ELSE IF r.flagData = Null
  THEN createEvaluationResponse(r.flag_key, r.default_value, "default",
                                "flag_not_found")
  ELSE answerFrom(r, r.flagData, rnd)

\* C33: a request during which a cache call failed while the store read did
\* not is answered without evaluation_error, with the value and the reason
\* it is answered when the cache calls succeed (for some random draw).  The
\* cache holds nothing or a snapshot for the key of the request.
C33_CacheFaultsNotFatal ==
  \A e \in EvalProcs :
    (/\ evals[e].pc = "done"
     /\ evals[e].faulted
     /\ ~evals[e].storeFailed
     /\ evals[e].cacheHeld = Null \/ Has(evals[e].cacheHeld, "config")) =>
      /\ evals[e].response.reason # "evaluation_error"
      /\ \E rnd \in 0..(RandDenom - 1) :
           /\ evals[e].response.value = withWorkingCache(evals[e], rnd).value
           /\ evals[e].response.reason = withWorkingCache(evals[e], rnd).reason

\* the snapshot of the evaluated flag as the SDK caches it
cachedSnapshot ==
  [flag |-> [flag_type |-> ectx.flag_type], config |-> ectx.flag_config,
   rules |-> ectx.rules, variants |-> ectx.variants]

\* C36: for a snapshot, user and default value whose evaluation takes no
\* random draw, the value of the service's response equals the value that
\* the SDK's evaluateLocally returns.
C36_LocalRemoteAgree ==
  (epc = "responded" /\ ~drawsRandom(ectx)) =>
    eresponse.value = evaluateLocally(cachedSnapshot, ectx.user_context,
                                      ectx.default_value, ectx.environment, ernd)

\* the stored row has for field f the value the operator supplied, or the
\* default when the operator left the field out
persisted(supplied, row, f, default) ==
  /\ Has(row, f)
  /\ row[f] = IF Has(supplied, f) THEN supplied[f] ELSE default

\* C37: after an updateFlagConfig that succeeded with a rules field, the
\* n-th stored rule has the priority of the n-th rule of the patch (100 when
\* it gave none) and its percentage when it gave one; after a createFlag
\* that succeeded with variants, the n-th stored variant has the weight of
\* the n-th variant of the request (50 when it gave none).
C37_SuppliedValuesPersisted ==
  /\ (Ended("update") /\ repo.result = "ok" /\ Has(repo.update, "rules")) =>
       /\ Len(flag_configs[<<repo.flag_key, repo.environment>>].rules)
            = Len(repo.update.rules)
       /\ \A n \in 1..Len(repo.update.rules) :
            /\ persisted(repo.update.rules[n],
                         flag_configs[<<repo.flag_key, repo.environment>>].rules[n],
                         "priority", 100)
            /\ Has(repo.update.rules[n], "percentage") =>
                 persisted(repo.update.rules[n],
                           flag_configs[<<repo.flag_key, repo.environment>>].rules[n],
                           "percentage", 0)
  /\ (/\ Ended("create") /\ repo.result = "ok"
      /\ Has(repo.request, "variants") /\ Len(repo.request.variants) > 0) =>
       /\ Len(flag_variants[repo.flag_key]) = Len(repo.request.variants)
       /\ \A n \in 1..Len(repo.request.variants) :
            persisted(repo.request.variants[n], flag_variants[repo.flag_key][n],
                      "weight", 50)

\* the physical keys of the cache entries of (flagKey, env) for env in envs
entriesOf(flagKey, envs) == {withKeyPrefix(cacheKeyOf(flagKey, env)) : env \in envs}

\* the step removes no cache entry outside `targets` and changes or adds none
touchesOnly(targets) ==
  /\ DOMAIN redis' \subseteq DOMAIN redis
  /\ \A k \in DOMAIN redis \ targets : k \in DOMAIN redis' /\ redis'[k] = redis[k]

\* C39: a step of invalidateCache(flagKey, environment) removes at most the
\* entry of that (flag, environment) and leaves every other entry as it was;
\* a step of invalidateCache(flagKey) leaves the entries of every other flag
\* as they were, also when flagKey is a prefix of the other flag's key.
C39_InvalidationTouchesOnlyTarget ==
  [][\A a \in AdminProcs :
       /\ (admins[a].pc = "invalidate" /\ admins'[a].pc = "respond") =>
            touchesOnly(entriesOf(admins[a].flag_key, {admins[a].environment}))
       /\ (admins[a].pc = "invalidate_all" /\ admins'[a].pc = "respond") =>
            touchesOnly(entriesOf(admins[a].flag_key, Environments))]_vars

\* invalidateCache("check", env) has removed its entry while the cache holds
\* the entry of check in the other environment and both entries of checkout
C39_Witness ==
  \E a \in AdminProcs, env \in CachedEnvironments :
    /\ admins[a].pc = "respond"
    /\ admins[a].op = "update"
    /\ admins[a].flag_key = "check"
    /\ admins[a].environment = env
    /\ admins[a].invalidated = {env}
    /\ DOMAIN redis = entriesOf("checkout", CachedEnvironments)
                        \cup entriesOf("check", CachedEnvironments \ {env})

====
